---- MODULE Spec2Model ----
(***************************************************************************)
(* A model of the analysis core of strata_scraper (src/main.py): the       *)
(* metadata extractor, the keyword analyzer, the tracking fingerprinter,   *)
(* the scorer and the report composer, as the Python code computes them.   *)
(*                                                                         *)
(* Python values are modelled as follows.  A dict is a function whose      *)
(* domain is its set of keys, a list is a sequence, a str is a sequence    *)
(* of one-character strings.  A call either returns a value or raises;     *)
(* the outcome of a call is a record Returned(v) or Raised(e).             *)
(***************************************************************************)
EXTENDS Integers, Sequences, FiniteSets, TLC

VARIABLES
    pc,                 \* which operation ran last
    url,                \* the source URL handed to the scraper
    doc,                \* the parsed document (the soup): its elements in document order
    scraped_data,       \* outcome of simple_web_scraper
    analysis,           \* outcome of analyze_scraped_content
    site_dir,           \* outcome of save_content_to_files
    files,              \* the files save_content_to_files has written: name -> content
    seo_data,           \* outcome of extract_seo_metadata (component specifications)
    analytics_data,     \* the dict extract_analytics_data builds
    word_freq,          \* the Counter over the words read so far, in first-seen order
    word_count,         \* len(words)
    speed_indicators,   \* the page_speed_indicators dict given to the scorer
    performance_score,  \* outcome of calculate_performance_score
    recommendations,    \* outcome of add_recommendations_from_scrape
    health_score,       \* outcome of calculate_health_score
    wall_clock,         \* the reading datetime.now() gives at this moment
    saves,              \* the save operations under way: each one's position and locals
    tracker_data,       \* SiteTracker.data, the tracker held in memory
    add_results,        \* what the calls of add_scraped_site returned, in call order
    invocations         \* the pipeline invocations under way: each one's position and locals

vars == <<pc, url, doc, scraped_data, analysis, site_dir, files, seo_data,
          analytics_data, word_freq, word_count, speed_indicators, performance_score,
          recommendations, health_score, wall_clock, saves, tracker_data, add_results,
          invocations>>

pipelineVars == <<url, doc, scraped_data, analysis, site_dir, files>>
keywordVars == <<word_freq, word_count>>
scoreVars == <<speed_indicators, performance_score>>
projectVars == <<recommendations, health_score>>
serviceVars == <<wall_clock, saves, tracker_data, add_results, invocations>>

-----------------------------------------------------------------------------
(* Python values *)

\* None where a str is expected: no sequence of characters equals it
None == <<"<None>">>

\* None where a dict is expected
NoneDict == [is_none |-> TRUE]

NotCalled == [status |-> "not_called"]
Returned(v) == [status |-> "returned", value |-> v]
Raised(e) == [status |-> "raised", exception |-> e]

HasReturned(r) == r.status = "returned"
HasRaised(r) == r.status = "raised"

\* dict.get(key, default)
Get(d, k, default) == IF k \in DOMAIN d THEN d[k] ELSE default

\* the list [x for x in s if Test(x)]
Filter(s, Test(_)) == SelectSeq(s, Test)

\* the list [F(x) for x in s]
Map(s, F(_)) == [i \in 1..Len(s) |-> F(s[i])]

\* sum of a sequence of integers
RECURSIVE Sum(_)
Sum(s) == IF s = <<>> THEN 0 ELSE Head(s) + Sum(Tail(s))

\* the sequences over S of length at most n
SeqsUpTo(S, n) == UNION {[1..k -> S] : k \in 0..n}

Max(a, b) == IF a >= b THEN a ELSE b

-----------------------------------------------------------------------------
(* Tracking intensity: calculate_tracking_intensity, main.py 13-33 *)

ToolKeys == <<"google_analytics", "facebook_pixel", "google_tag_manager",
              "hotjar", "mixpanel", "other_tracking">>

total_tools(data) ==
    Sum([i \in 1..Len(ToolKeys) |-> Len(Get(data, ToolKeys[i], <<>>))])

calculate_tracking_intensity_off_by_one(data) ==
    LET t == total_tools(data) IN
    IF t = 0 THEN "None"
    ELSE IF t = 1 THEN "Light"
    ELSE IF t < 3 THEN "Moderate"
    ELSE IF t <= 5 THEN "Heavy"
    ELSE "Very Heavy"

calculate_tracking_intensity(data) ==
    LET t == total_tools(data) IN
    IF t = 0 THEN "None"
    ELSE IF t = 1 THEN "Light"
    ELSE IF t <= 3 THEN "Moderate"
    ELSE IF t <= 5 THEN "Heavy"
    ELSE "Very Heavy"

analytics_summary_counting_social(data) ==
    [total_tracking_tools |->
        Len(data["google_analytics"]) + Len(data["facebook_pixel"]) +
        Len(data["google_tag_manager"]) + Len(data["hotjar"]) +
        Len(data["mixpanel"]) + Len(data["other_tracking"]) +
        Len(data["social_media_tracking"]),
     has_google_analytics |-> data["google_analytics"] # <<>>,
     has_facebook_pixel |-> data["facebook_pixel"] # <<>>,
     has_gtm |-> data["google_tag_manager"] # <<>>,
     has_hotjar |-> data["hotjar"] # <<>>,
     has_mixpanel |-> data["mixpanel"] # <<>>,
     has_social_tracking |-> data["social_media_tracking"] # <<>>,
     tracking_intensity |-> calculate_tracking_intensity(data)]

\* the analytics_summary dict, main.py 1082-1099
analytics_summary(data) ==
    [total_tracking_tools |->
        Len(data["google_analytics"]) + Len(data["facebook_pixel"]) +
        Len(data["google_tag_manager"]) + Len(data["hotjar"]) +
        Len(data["mixpanel"]) + Len(data["other_tracking"]),
     has_google_analytics |-> data["google_analytics"] # <<>>,
     has_facebook_pixel |-> data["facebook_pixel"] # <<>>,
     has_gtm |-> data["google_tag_manager"] # <<>>,
     has_hotjar |-> data["hotjar"] # <<>>,
     has_mixpanel |-> data["mixpanel"] # <<>>,
     has_social_tracking |-> data["social_media_tracking"] # <<>>,
     tracking_intensity |-> calculate_tracking_intensity(data)]

\* the analytics_data dict as extract_analytics_data creates it, main.py 1003-1016
EmptyAnalyticsData ==
    [google_analytics |-> <<>>, facebook_pixel |-> <<>>, google_tag_manager |-> <<>>,
     hotjar |-> <<>>, mixpanel |-> <<>>, other_tracking |-> <<>>,
     social_media_tracking |-> <<>>, ecommerce_tracking |-> <<>>,
     conversion_tracking |-> <<>>, heatmap_tracking |-> <<>>,
     session_recording |-> <<>>, analytics_summary |-> <<>>]

-----------------------------------------------------------------------------
(* Performance score: calculate_performance_score, main.py 801-819 *)

calculate_performance_score_add(ind) ==
    LET s1 == IF Get(ind, "total_scripts", 0) > 20 THEN 100 - 20
              ELSE IF Get(ind, "total_scripts", 0) > 10 THEN 100 - 10
              ELSE 100
        s2 == IF Get(ind, "inline_styles", 0) > 50 THEN s1 - 15
              ELSE IF Get(ind, "inline_styles", 0) > 20 THEN s1 - 7
              ELSE s1
        s3 == IF Get(ind, "images_without_alt", 0) > 0 THEN s2 + 10 ELSE s2
    IN  Max(s3, 0)

\* the scorer with two ifs in place of each if/elif
calculate_performance_score_both_tiers(ind) ==
    LET s1 == IF Get(ind, "total_scripts", 0) > 20 THEN 100 - 20 - 10
              ELSE IF Get(ind, "total_scripts", 0) > 10 THEN 100 - 10
              ELSE 100
        s2 == IF Get(ind, "inline_styles", 0) > 50 THEN s1 - 15 - 7
              ELSE IF Get(ind, "inline_styles", 0) > 20 THEN s1 - 7
              ELSE s1
        s3 == IF Get(ind, "images_without_alt", 0) > 0 THEN s2 - 10 ELSE s2
    IN  Max(s3, 0)

calculate_performance_score(ind) ==
    LET s1 == IF Get(ind, "total_scripts", 0) > 20 THEN 100 - 20
              ELSE IF Get(ind, "total_scripts", 0) > 10 THEN 100 - 10
              ELSE 100
        s2 == IF Get(ind, "inline_styles", 0) > 50 THEN s1 - 15
              ELSE IF Get(ind, "inline_styles", 0) > 20 THEN s1 - 7
              ELSE s1
        s3 == IF Get(ind, "images_without_alt", 0) > 0 THEN s2 - 10 ELSE s2
    IN  Max(s3, 0)

-----------------------------------------------------------------------------
(* Values the variables of a specification hold when it does not use them *)

PipelineIdle ==
    /\ url = None /\ doc = <<>> /\ scraped_data = NotCalled
    /\ analysis = NotCalled /\ site_dir = NotCalled /\ files = <<>>

KeywordIdle == word_freq = <<>> /\ word_count = 0

ScoreIdle == speed_indicators = <<>> /\ performance_score = NotCalled

ProjectIdle == recommendations = NotCalled /\ health_score = NotCalled

ServiceIdle ==
    /\ wall_clock = None /\ saves = <<>> /\ tracker_data = NoneDict
    /\ add_results = <<>> /\ invocations = <<>>

-----------------------------------------------------------------------------
(* SpecIntensity: the aggregation step of extract_analytics_data applied to *)
(* every combination of tool-list lengths.                                  *)

MaxPerTool == 2

\* a list of n tool records; the aggregation reads only the lists' lengths
RecordList(n) == [i \in 1..n |-> [type |-> "record"]]

InitIntensity ==
    /\ pc = "collected"
    /\ \E n \in [{"google_analytics", "facebook_pixel", "google_tag_manager", "hotjar",
                  "mixpanel", "other_tracking", "social_media_tracking"} -> 0..MaxPerTool] :
          analytics_data =
              [k \in DOMAIN EmptyAnalyticsData |->
                  IF k \in DOMAIN n THEN RecordList(n[k]) ELSE EmptyAnalyticsData[k]]
    /\ seo_data = NotCalled
    /\ PipelineIdle /\ KeywordIdle /\ ScoreIdle /\ ProjectIdle /\ ServiceIdle

\* main.py 1082-1099
SummarizeAnalytics ==
    /\ pc = "collected"
    /\ analytics_data' =
          [analytics_data EXCEPT !["analytics_summary"] = analytics_summary(analytics_data)]
    /\ pc' = "summarized"
    /\ UNCHANGED <<pipelineVars, keywordVars, scoreVars, projectVars, serviceVars, seo_data>>

NextIntensity == SummarizeAnalytics

SpecIntensity == InitIntensity /\ [][NextIntensity]_vars

\* the number of tool records, counted list by list
ToolRecords ==
    Len(analytics_data["google_analytics"]) + Len(analytics_data["google_tag_manager"])
    + Len(analytics_data["facebook_pixel"]) + Len(analytics_data["hotjar"])
    + Len(analytics_data["mixpanel"]) + Len(analytics_data["other_tracking"])

\* C4: tracking_intensity is decided by the number of tool records alone:
\* 0 None, 1 Light, 2-3 Moderate, 4-5 Heavy, 6 or more Very Heavy.
C4_IntensityByTotal ==
    pc = "summarized" =>
        analytics_data["analytics_summary"].tracking_intensity =
            CASE ToolRecords = 0 -> "None"
              [] ToolRecords = 1 -> "Light"
              [] ToolRecords \in {2, 3} -> "Moderate"
              [] ToolRecords \in {4, 5} -> "Heavy"
              [] OTHER -> "Very Heavy"

C4_Witness ==
    /\ pc = "summarized"
    /\ ToolRecords = 3
    /\ analytics_data["social_media_tracking"] # <<>>
    /\ analytics_data["analytics_summary"].tracking_intensity = "Moderate"

\* C19: total_tracking_tools is the sum of the lengths of the six tool lists,
\* whatever social_media_tracking holds, and each has_ flag is true exactly
\* when its list is non-empty.
C19_SummaryCounts ==
    pc = "summarized" =>
        LET summary == analytics_data["analytics_summary"] IN
        /\ summary.total_tracking_tools = ToolRecords
        /\ summary.has_google_analytics <=> Len(analytics_data["google_analytics"]) > 0
        /\ summary.has_facebook_pixel <=> Len(analytics_data["facebook_pixel"]) > 0
        /\ summary.has_gtm <=> Len(analytics_data["google_tag_manager"]) > 0
        /\ summary.has_hotjar <=> Len(analytics_data["hotjar"]) > 0
        /\ summary.has_mixpanel <=> Len(analytics_data["mixpanel"]) > 0
        /\ summary.has_social_tracking <=> Len(analytics_data["social_media_tracking"]) > 0

C19_Witness ==
    /\ pc = "summarized"
    /\ Len(analytics_data["social_media_tracking"]) = 2
    /\ Len(analytics_data["other_tracking"]) = 2
    /\ Len(analytics_data["hotjar"]) = 0
    /\ analytics_data["analytics_summary"].total_tracking_tools = 5
    /\ ~analytics_data["analytics_summary"].has_hotjar
    /\ analytics_data["analytics_summary"].has_social_tracking

-----------------------------------------------------------------------------
(* SpecScore: calculate_performance_score applied to indicator dicts with   *)
(* absent, negative, threshold and large values.                            *)

MaxIndicator == 1000

IndicatorValues == {-MaxIndicator, -1, 0, 1, 10, 11, 20, 21, 50, 51, MaxIndicator}

IndicatorKeys == {"total_scripts", "inline_styles", "images_without_alt"}

InitScore ==
    /\ pc = "indicators"
    /\ \E present \in SUBSET IndicatorKeys :
          speed_indicators \in [present -> IndicatorValues]
    /\ performance_score = NotCalled
    /\ seo_data = NotCalled /\ analytics_data = <<>>
    /\ PipelineIdle /\ KeywordIdle /\ ProjectIdle /\ ServiceIdle

CalculateScore ==
    /\ pc = "indicators"
    /\ performance_score' = Returned(calculate_performance_score(speed_indicators))
    /\ pc' = "scored"
    /\ UNCHANGED <<pipelineVars, keywordVars, projectVars, serviceVars, speed_indicators, seo_data, analytics_data>>

NextScore == CalculateScore

SpecScore == InitScore /\ [][NextScore]_vars

\* C5: the performance score lies between 0 and 100 for every indicator dict.
C5_ScoreInRange ==
    pc = "scored" =>
        /\ HasReturned(performance_score)
        /\ performance_score.value >= 0
        /\ performance_score.value <= 100

C5_Witness ==
    /\ pc = "scored"
    /\ "total_scripts" \notin DOMAIN speed_indicators
    /\ "inline_styles" \in DOMAIN speed_indicators
    /\ speed_indicators["inline_styles"] = MaxIndicator
    /\ "images_without_alt" \in DOMAIN speed_indicators
    /\ speed_indicators["images_without_alt"] < 0
    /\ performance_score.value = 85

-----------------------------------------------------------------------------
(* Keyword analyzer: extract_seo_metadata, main.py 199-214.                 *)
(* The text is the list `words` that re.findall returns (lower-cased       *)
(* alphanumeric runs).  Counter(words) is built word by word; a Counter    *)
(* keeps its keys in insertion order, so word_freq is the sequence of      *)
(* <<word, count>> items in the order in which the words first occur.      *)

stop_words ==
    {
     <<"t", "h", "e">>,
     <<"a">>,
     <<"a", "n">>,
     <<"a", "n", "d">>,
     <<"o", "r">>,
     <<"b", "u", "t">>,
     <<"i", "n">>,
     <<"o", "n">>,
     <<"a", "t">>,
     <<"t", "o">>,
     <<"f", "o", "r">>,
     <<"o", "f">>,
     <<"w", "i", "t", "h">>,
     <<"b", "y">>,
     <<"i", "s">>,
     <<"a", "r", "e">>,
     <<"w", "a", "s">>,
     <<"w", "e", "r", "e">>,
     <<"b", "e">>,
     <<"b", "e", "e", "n">>,
     <<"h", "a", "v", "e">>,
     <<"h", "a", "s">>,
     <<"h", "a", "d">>,
     <<"d", "o">>,
     <<"d", "o", "e", "s">>,
     <<"d", "i", "d">>,
     <<"w", "i", "l", "l">>,
     <<"w", "o", "u", "l", "d">>,
     <<"c", "o", "u", "l", "d">>,
     <<"s", "h", "o", "u", "l", "d">>,
     <<"m", "a", "y">>,
     <<"m", "i", "g", "h", "t">>,
     <<"m", "u", "s", "t">>,
     <<"c", "a", "n">>,
     <<"t", "h", "i", "s">>,
     <<"t", "h", "a", "t">>,
     <<"t", "h", "e", "s", "e">>,
     <<"t", "h", "o", "s", "e">>,
     <<"i">>,
     <<"y", "o", "u">>,
     <<"h", "e">>,
     <<"s", "h", "e">>,
     <<"i", "t">>,
     <<"w", "e">>,
     <<"t", "h", "e", "y">>,
     <<"m", "e">>,
     <<"h", "i", "m">>,
     <<"h", "e", "r">>,
     <<"u", "s">>,
     <<"t", "h", "e", "m">>,
     <<"m", "y">>,
     <<"y", "o", "u", "r">>,
     <<"h", "i", "s">>,
     <<"i", "t", "s">>,
     <<"o", "u", "r">>,
     <<"t", "h", "e", "i", "r">>,
     <<"m", "i", "n", "e">>,
     <<"y", "o", "u", "r", "s">>,
     <<"h", "e", "r", "s">>,
     <<"o", "u", "r", "s">>,
     <<"t", "h", "e", "i", "r", "s">>
    }

TopKeywords == 20

\* the keys of a Counter
CounterKeys(freq) == {freq[i][1] : i \in 1..Len(freq)}

\* Counter.update with one more word
CounterAdd(freq, w) ==
    IF w \in CounterKeys(freq)
    THEN [i \in 1..Len(freq) |->
             IF freq[i][1] = w THEN <<w, freq[i][2] + 1>> ELSE freq[i]]
    ELSE Append(freq, <<w, 1>>)

\* main.py 209-210
KeepWord(item) == item[1] \notin stop_words /\ Len(item[1]) > 2

filtered_words(freq) == SelectSeq(freq, KeepWord)

\* one step of a stable descending sort: x goes after every item whose count
\* is at least its own
InsertByCount(sorted, x) ==
    LET ahead == {i \in 1..Len(sorted) : sorted[i][2] >= x[2]}
        k == Cardinality(ahead)
    IN  SubSeq(sorted, 1, k) \o <<x>> \o SubSeq(sorted, k + 1, Len(sorted))

\* an unstable variant: x goes before the items that have its count
InsertByCountTiesReversed(sorted, x) ==
    LET ahead == {i \in 1..Len(sorted) : sorted[i][2] > x[2]}
        k == Cardinality(ahead)
    IN  SubSeq(sorted, 1, k) \o <<x>> \o SubSeq(sorted, k + 1, Len(sorted))

RECURSIVE sorted_by_count_ties_reversed(_)
sorted_by_count_ties_reversed(items) ==
    IF items = <<>> THEN <<>>
    ELSE InsertByCountTiesReversed(
             sorted_by_count_ties_reversed(SubSeq(items, 1, Len(items) - 1)),
             items[Len(items)])

RECURSIVE SortedInsertAll(_)
SortedInsertAll(items) ==
    IF items = <<>> THEN <<>>
    ELSE InsertByCount(SortedInsertAll(SubSeq(items, 1, Len(items) - 1)),
                       items[Len(items)])

\* sorted(items, key=lambda x: x[1], reverse=True): stable, main.py 213
sorted_by_count(items) == SortedInsertAll(items)

\* main.py 213: the first 20 items of the sorted list, as an ordered dict
top_keywords(freq) ==
    LET ranked == sorted_by_count(filtered_words(freq))
    IN  SubSeq(ranked, 1, IF Len(ranked) < TopKeywords THEN Len(ranked) ELSE TopKeywords)

(* SpecKeywords: the words of a text are read one by one, then the keyword *)
(* density is computed.  A word is either new (the next word of            *)
(* Vocabulary) or a repetition of a word read before.                      *)

MaxDistinctWords == 23
MaxRepeats == 2

Vocabulary ==
    <<
     <<"s", "e", "o">>,
     <<"t", "h", "e">>,
     <<"p", "a", "g", "e">>,
     <<"a", "b">>,
     <<"s", "i", "t", "e">>,
     <<"r", "a", "n", "k">>,
     <<"l", "i", "n", "k">>,
     <<"t", "e", "x", "t">>,
     <<"w", "o", "r", "d">>,
     <<"h", "t", "m", "l">>,
     <<"m", "e", "t", "a">>,
     <<"t", "i", "t", "l", "e">>,
     <<"i", "m", "a", "g", "e">>,
     <<"s", "c", "o", "r", "e">>,
     <<"t", "o", "o", "l">>,
     <<"t", "r", "a", "c", "k">>,
     <<"p", "i", "x", "e", "l">>,
     <<"t", "a", "g">>,
     <<"d", "a", "t", "a">>,
     <<"f", "e", "e", "d">>,
     <<"i", "c", "o", "n">>,
     <<"m", "a", "p">>,
     <<"r", "o", "b", "o", "t">>,
     <<"v", "i", "e", "w">>,
     <<"h", "o", "s", "t">>,
     <<"p", "a", "t", "h">>,
     <<"l", "i", "s", "t">>,
     <<"k", "e", "y">>,
     <<"t", "o", "p">>,
     <<"s", "t", "a", "b", "l", "e">>
    >>

InitKeywords ==
    /\ pc = "reading"
    /\ word_freq = <<>>
    /\ word_count = 0
    /\ seo_data = NotCalled
    /\ analytics_data = <<>>
    /\ PipelineIdle /\ ScoreIdle /\ ProjectIdle /\ ServiceIdle

ReadNewWord ==
    /\ pc = "reading"
    /\ Len(word_freq) < MaxDistinctWords
    /\ Len(word_freq) < Len(Vocabulary)
    /\ word_freq' = CounterAdd(word_freq, Vocabulary[Len(word_freq) + 1])
    /\ word_count' = word_count + 1
    /\ UNCHANGED <<pc, pipelineVars, scoreVars, projectVars, serviceVars, seo_data, analytics_data>>

ReadWordAgain ==
    /\ pc = "reading"
    /\ word_count - Len(word_freq) < MaxRepeats
    /\ \E w \in CounterKeys(word_freq) : word_freq' = CounterAdd(word_freq, w)
    /\ word_count' = word_count + 1
    /\ UNCHANGED <<pc, pipelineVars, scoreVars, projectVars, serviceVars, seo_data, analytics_data>>

\* main.py 202-214
ComputeKeywordDensity ==
    /\ pc = "reading"
    /\ seo_data' = Returned([word_count |-> word_count,
                             keyword_density |-> top_keywords(word_freq)])
    /\ pc' = "counted"
    /\ UNCHANGED <<pipelineVars, scoreVars, projectVars, serviceVars, keywordVars, analytics_data>>

NextKeywords == ReadNewWord \/ ReadWordAgain \/ ComputeKeywordDensity

SpecKeywords == InitKeywords /\ [][NextKeywords]_vars

\* the position of word w in the order of first occurrence
FirstSeen(w) == CHOOSE i \in 1..Len(word_freq) : word_freq[i][1] = w

\* C1: keyword_density has at most 20 entries, in non-increasing order of
\* count, and equal counts appear in the order in which the words first occur.
C1_KeywordsRanked ==
    pc = "counted" =>
        LET kd == seo_data.value.keyword_density IN
        /\ Len(kd) <= 20
        /\ \A i \in 1..Len(kd) : \A j \in 1..Len(kd) :
              i < j =>
                 /\ kd[i][2] >= kd[j][2]
                 /\ kd[i][2] = kd[j][2] => FirstSeen(kd[i][1]) < FirstSeen(kd[j][1])

C1_Witness ==
    /\ pc = "counted"
    /\ Len(filtered_words(word_freq)) > 20
    /\ Len(seo_data.value.keyword_density) = 20
    /\ seo_data.value.keyword_density[1][2] = 2
    /\ seo_data.value.keyword_density[2][2] = 2
    /\ seo_data.value.keyword_density[3][2] = 1
    /\ FirstSeen(seo_data.value.keyword_density[1][1]) > 3

-----------------------------------------------------------------------------
(* Strings and regular expressions.                                         *)

UpperLetters ==
    {"A", "B", "C", "D", "E", "F", "G", "H", "I", "J", "K", "L", "M",
     "N", "O", "P", "Q", "R", "S", "T", "U", "V", "W", "X", "Y", "Z"}

LowerLetters ==
    {"a", "b", "c", "d", "e", "f", "g", "h", "i", "j", "k", "l", "m",
     "n", "o", "p", "q", "r", "s", "t", "u", "v", "w", "x", "y", "z"}

Digits == {"0", "1", "2", "3", "4", "5", "6", "7", "8", "9"}

Quotes == {"'", "\""}

Whitespace == {" ", "\t", "\n", "\r", "\f"}

UpperSeq == <<"A", "B", "C", "D", "E", "F", "G", "H", "I", "J", "K", "L", "M", "N", "O", "P", "Q", "R", "S", "T", "U", "V", "W", "X", "Y", "Z">>

LowerSeq == <<"a", "b", "c", "d", "e", "f", "g", "h", "i", "j", "k", "l", "m", "n", "o", "p", "q", "r", "s", "t", "u", "v", "w", "x", "y", "z">>

\* str.lower() on one character
LowerChar(c) ==
    IF c \in UpperLetters
    THEN LowerSeq[CHOOSE i \in 1..Len(UpperSeq) : UpperSeq[i] = c]
    ELSE c

\* str.lower()
Lower(s) == [i \in 1..Len(s) |-> LowerChar(s[i])]

\* sub in s, for a non-empty sub
Contains(s, sub) ==
    \E i \in 1..(Len(s) - Len(sub) + 1) : SubSeq(s, i, i + Len(sub) - 1) = sub

\* s.startswith(prefix)
StartsWith(s, prefix) ==
    Len(s) >= Len(prefix) /\ SubSeq(s, 1, Len(prefix)) = prefix

(* A regular expression is matched by following positions: P is a set of   *)
(* positions in s at which the part of the pattern matched so far ends     *)
(* (the index of the next character to read); each operator below returns  *)
(* the positions after one more part of the pattern.                       *)

\* a literal
ReLit(s, P, lit) ==
    {p + Len(lit) : p \in {q \in P : /\ q + Len(lit) - 1 <= Len(s)
                                      /\ SubSeq(s, q, q + Len(lit) - 1) = lit}}

\* between lo and hi characters of class C
ReRep(s, P, C, lo, hi) ==
    UNION {{p + k : k \in {n \in lo..hi : /\ p + n - 1 <= Len(s)
                                           /\ \A j \in p..(p + n - 1) : s[j] \in C}}
           : p \in P}

\* one character of class C
ReOne(s, P, C) == ReRep(s, P, C, 1, 1)

\* re.search: the leftmost position at which the pattern, given as the
\* operator Ends from a start position to its end positions, matches; 0 if none
SearchStart(s, Ends(_)) ==
    IF \E i \in 1..(Len(s) + 1) : Ends(i) # {}
    THEN CHOOSE i \in 1..(Len(s) + 1) :
            /\ Ends(i) # {}
            /\ \A j \in 1..(i - 1) : Ends(j) = {}
    ELSE 0

SetMax(S) == CHOOSE x \in S : \A y \in S : y <= x

\* G-[A-Z0-9]{10}
GA4Ends(s, i) == ReRep(s, ReLit(s, {i}, <<"G", "-">>), UpperLetters \cup Digits, 10, 10)

\* UA-[0-9]+-[0-9]+
UAEnds(s, i) ==
    ReRep(s, ReLit(s, ReRep(s, ReLit(s, {i}, <<"U", "A", "-">>), Digits, 1, Len(s)), <<"-">>),
          Digits, 1, Len(s))

\* G-[A-Z0-9]{10}|UA-[0-9]+-[0-9]+
GAIdEnds(s, i) == IF GA4Ends(s, i) # {} THEN GA4Ends(s, i) ELSE UAEnds(s, i)

\* gtag\(['"](config|js)['"],\s*['"](G-[A-Z0-9]{10}|UA-[0-9]+-[0-9]+)['"]
GtagEnds(s, i) ==
    LET p1 == ReOne(s, ReLit(s, {i}, <<"g", "t", "a", "g", "(">>), Quotes)
        p2 == ReLit(s, p1, <<"c", "o", "n", "f", "i", "g">>) \cup ReLit(s, p1, <<"j", "s">>)
        p3 == ReOne(s, ReRep(s, ReLit(s, ReOne(s, p2, Quotes), <<",">>), Whitespace, 0, Len(s)),
                    Quotes)
        p4 == UNION {GA4Ends(s, p) \cup UAEnds(s, p) : p \in p3}
    IN  ReOne(s, p4, Quotes)

\* GTM-[A-Z0-9]{7}
GTMEnds(s, i) == ReRep(s, ReLit(s, {i}, <<"G", "T", "M", "-">>), UpperLetters \cup Digits, 7, 7)

\* fbq\(['"]init['"],\s*['"]   (up to the group)
FbqGroupStarts(s, i) ==
    ReOne(s, ReRep(s, ReLit(s, ReOne(s, ReLit(s, ReOne(s, ReLit(s, {i}, <<"f", "b", "q", "(">>), Quotes),
                                                  <<"i", "n", "i", "t">>), Quotes), <<",">>),
                       Whitespace, 0, Len(s)),
          Quotes)

\* ([0-9]{9,15})['"]   (the group, then the closing quote): the group's ends
FbqGroupEnds(s, g) ==
    {e \in ReRep(s, {g}, Digits, 9, 15) : ReOne(s, {e}, Quotes) # {}}

FbqEnds(s, i) == UNION {FbqGroupEnds(s, g) : g \in FbqGroupStarts(s, i)}

\* hjid:\s*   (up to the group)
HjidGroupStarts(s, i) == ReRep(s, ReLit(s, {i}, <<"h", "j", "i", "d", ":">>), Whitespace, 0, Len(s))

\* ([0-9]+)
HjidEnds(s, i) == UNION {ReRep(s, {g}, Digits, 1, Len(s)) : g \in HjidGroupStarts(s, i)}

\* mixpanel\.init\(['"]   (up to the group)
MixpanelGroupStarts(s, i) == ReOne(s, ReLit(s, {i}, <<"m", "i", "x", "p", "a", "n", "e", "l", ".", "i", "n", "i", "t", "(">>), Quotes)

\* ([a-zA-Z0-9]{32})['"]
MixpanelGroupEnds(s, g) ==
    {e \in ReRep(s, {g}, LowerLetters \cup UpperLetters \cup Digits, 32, 32) :
        ReOne(s, {e}, Quotes) # {}}

MixpanelEnds(s, i) == UNION {MixpanelGroupEnds(s, g) : g \in MixpanelGroupStarts(s, i)}

PreviewLen == 200

\* script_content[:200] + '...' if len(script_content) > 200 else script_content
content_preview(script_content) ==
    IF Len(script_content) > PreviewLen
    THEN SubSeq(script_content, 1, PreviewLen) \o <<".", ".", ".">>
    ELSE script_content

-----------------------------------------------------------------------------
(* Tracking fingerprinter: extract_analytics_data and its helpers,          *)
(* main.py 992-1213.  An element of the document is a record: its tag, its  *)
(* attributes by name, and `string` (its text child) when it has one.       *)

\* soup.find_all(tag)
HasTag(e, tag) == e.tag = tag

find_all(d, tag) == SelectSeq(d, LAMBDA e : HasTag(e, tag))

\* the text re.search matched from position i on (greedy: the longest end)
Matched(s, i, ends) == SubSeq(s, i, SetMax(ends) - 1)

\* the ga_info dict as created, main.py 1107-1114
ga_info(script_content, script_src) ==
    [type |-> <<"g", "o", "o", "g", "l", "e", "_", "a", "n", "a", "l", "y", "t", "i", "c", "s">>, version |-> <<"u", "n", "k", "n", "o", "w", "n">>,
     tracking_id |-> None, measurement_id |-> None,
     content_preview |-> content_preview(script_content),
     src |-> script_src]

\* main.py 1117-1120 with the id stored as the tracking id
with_ga4_match_as_tracking_id(script_content, info, m) ==
    IF m # 0
    THEN [info EXCEPT !.tracking_id = Matched(script_content, m, GA4Ends(script_content, m)),
                      !.version = <<"G", "A", "4">>]
    ELSE info

\* main.py 1117-1120, for ga4_match found at position m (0: no match)
with_ga4_match(script_content, info, m) ==
    IF m # 0
    THEN [info EXCEPT !.measurement_id = Matched(script_content, m, GA4Ends(script_content, m)),
                      !.version = <<"G", "A", "4">>]
    ELSE info

\* main.py 1123-1126, for ua_match found at position m (0: no match)
with_ua_match(script_content, info, m) ==
    IF m # 0
    THEN [info EXCEPT !.tracking_id = Matched(script_content, m, UAEnds(script_content, m)),
                      !.version = <<"U", "n", "i", "v", "e", "r", "s", "a", "l", " ", "A", "n", "a", "l", "y", "t", "i", "c", "s">>]
    ELSE info

\* main.py 1134-1139, for the text of id_match
with_id_match(info, idtext) ==
    IF StartsWith(idtext, <<"G", "-">>)
    THEN [info EXCEPT !.measurement_id = idtext, !.version = <<"G", "A", "4">>]
    ELSE [info EXCEPT !.tracking_id = idtext, !.version = <<"U", "n", "i", "v", "e", "r", "s", "a", "l", " ", "A", "n", "a", "l", "y", "t", "i", "c", "s">>]

\* main.py 1132-1133, for the text of gtag_match and id_match found in it at
\* position m (0: no match)
with_gtag_group(info, group, m) ==
    IF m # 0 THEN with_id_match(info, Matched(group, m, GAIdEnds(group, m))) ELSE info

\* main.py 1129-1131, for gtag_match found at position m (0: no match)
with_gtag_match(script_content, info, m) ==
    IF m # 0 /\ info.measurement_id = None /\ info.tracking_id = None
    THEN LET Group(group) ==
                 with_gtag_group(info, group, SearchStart(group, LAMBDA i : GAIdEnds(group, i)))
         IN  Group(Matched(script_content, m, GtagEnds(script_content, m)))
    ELSE info

\* main.py 1141
found_or_none(info) ==
    IF info.tracking_id # None \/ info.measurement_id # None THEN info ELSE NoneDict

\* main.py 1103-1141
extract_google_analytics_info(script_content, script_src) ==
    found_or_none(
        with_gtag_match(script_content,
            with_ua_match(script_content,
                with_ga4_match(script_content, ga_info(script_content, script_src),
                    SearchStart(script_content, LAMBDA i : GA4Ends(script_content, i))),
                SearchStart(script_content, LAMBDA i : UAEnds(script_content, i))),
            SearchStart(script_content, LAMBDA i : GtagEnds(script_content, i))))

\* main.py 1143-1159
extract_gtm_info(script_content, script_src) ==
    LET m == SearchStart(script_content, LAMBDA i : GTMEnds(script_content, i))
    IN  IF m # 0
        THEN [type |-> <<"g", "o", "o", "g", "l", "e", "_", "t", "a", "g", "_", "m", "a", "n", "a", "g", "e", "r">>,
              container_id |-> Matched(script_content, m, GTMEnds(script_content, m)),
              content_preview |-> content_preview(script_content),
              src |-> script_src]
        ELSE NoneDict

\* main.py 1161-1177
extract_facebook_pixel_info(script_content, script_src) ==
    LET m == SearchStart(script_content, LAMBDA i : FbqEnds(script_content, i))
        g == CHOOSE p \in FbqGroupStarts(script_content, m) :
                 FbqGroupEnds(script_content, p) # {}
    IN  IF m # 0
        THEN [type |-> <<"f", "a", "c", "e", "b", "o", "o", "k", "_", "p", "i", "x", "e", "l">>,
              pixel_id |-> Matched(script_content, g, FbqGroupEnds(script_content, g)),
              content_preview |-> content_preview(script_content),
              src |-> script_src]
        ELSE NoneDict

\* main.py 1179-1195
extract_hotjar_info(script_content, script_src) ==
    LET m == SearchStart(script_content, LAMBDA i : HjidEnds(script_content, i))
        g == SetMax(HjidGroupStarts(script_content, m))
    IN  IF m # 0
        THEN [type |-> <<"h", "o", "t", "j", "a", "r">>,
              site_id |-> Matched(script_content, g,
                                  ReRep(script_content, {g}, Digits, 1, Len(script_content))),
              content_preview |-> content_preview(script_content),
              src |-> script_src]
        ELSE NoneDict

\* main.py 1197-1213
extract_mixpanel_info(script_content, script_src) ==
    LET m == SearchStart(script_content, LAMBDA i : MixpanelEnds(script_content, i))
        g == CHOOSE p \in MixpanelGroupStarts(script_content, m) :
                 MixpanelGroupEnds(script_content, p) # {}
    IN  IF m # 0
        THEN [type |-> <<"m", "i", "x", "p", "a", "n", "e", "l">>,
              project_token |-> Matched(script_content, g,
                                        MixpanelGroupEnds(script_content, g)),
              content_preview |-> content_preview(script_content),
              src |-> script_src]
        ELSE NoneDict

\* analytics_data[key].append(info) if info is not None
AppendIfFound(data, key, info) ==
    IF info # NoneDict THEN [data EXCEPT ![key] = Append(@, info)] ELSE data

OtherTools == {<<"c", "l", "a", "r", "i", "t", "y">>, <<"c", "r", "a", "z", "y", "e", "g", "g">>, <<"o", "p", "t", "i", "m", "i", "z", "e", "l", "y">>, <<"v", "w", "o">>, <<"a", "b", "t", "a", "s", "t", "y">>}

\* the signatures of main.py 1026, 1032, 1038, 1044, 1050 and 1056
TriggersGA(content, src) ==
    Contains(content, <<"g", "t", "a", "g">>) \/ Contains(content, <<"g", "a", "(">>)
    \/ Contains(src, <<"g", "o", "o", "g", "l", "e", "-", "a", "n", "a", "l", "y", "t", "i", "c", "s">>)

TriggersGTM(content, src) ==
    Contains(content, <<"g", "o", "o", "g", "l", "e", "t", "a", "g", "m", "a", "n", "a", "g", "e", "r">>) \/ Contains(src, <<"g", "o", "o", "g", "l", "e", "t", "a", "g", "m", "a", "n", "a", "g", "e", "r">>)

TriggersFacebook(content, src) ==
    Contains(content, <<"f", "b", "q">>) \/ Contains(src, <<"f", "a", "c", "e", "b", "o", "o", "k">>)

TriggersHotjar(content, src) ==
    Contains(content, <<"h", "o", "t", "j", "a", "r">>) \/ Contains(src, <<"h", "o", "t", "j", "a", "r">>)

TriggersMixpanel(content, src) ==
    Contains(content, <<"m", "i", "x", "p", "a", "n", "e", "l">>) \/ Contains(src, <<"m", "i", "x", "p", "a", "n", "e", "l">>)

TriggersOther(content, src) ==
    \E tool \in OtherTools : Contains(Lower(content), tool)

other_info(content, src) ==
    [type |-> <<"o", "t", "h", "e", "r", "_", "t", "r", "a", "c", "k", "i", "n", "g">>, content_preview |-> content_preview(content), src |-> src]

\* one independent check per tool instead of the if/elif chain
also_other(content, src, data) ==
    IF TriggersOther(content, src)
    THEN [data EXCEPT !["other_tracking"] = Append(@, other_info(content, src))]
    ELSE data

also_mixpanel(content, src, data) ==
    IF TriggersMixpanel(content, src)
    THEN AppendIfFound(data, "mixpanel", extract_mixpanel_info(content, src))
    ELSE data

also_hotjar(content, src, data) ==
    IF TriggersHotjar(content, src)
    THEN AppendIfFound(data, "hotjar", extract_hotjar_info(content, src))
    ELSE data

also_facebook(content, src, data) ==
    IF TriggersFacebook(content, src)
    THEN AppendIfFound(data, "facebook_pixel", extract_facebook_pixel_info(content, src))
    ELSE data

also_gtm(content, src, data) ==
    IF TriggersGTM(content, src)
    THEN AppendIfFound(data, "google_tag_manager", extract_gtm_info(content, src))
    ELSE data

also_ga(content, src, data) ==
    IF TriggersGA(content, src)
    THEN AppendIfFound(data, "google_analytics", extract_google_analytics_info(content, src))
    ELSE data

\* six independent checks instead of the if/elif chain
classify_script_independently(script, data) ==
    LET Checks(content, src) ==
            also_other(content, src,
                also_mixpanel(content, src,
                    also_hotjar(content, src,
                        also_facebook(content, src,
                            also_gtm(content, src, also_ga(content, src, data))))))
    IN  Checks(Get(script, "string", <<>>), Get(script, "src", <<>>))

\* the body of the loop over the scripts, main.py 1021-1062
classify_script(script, data) ==
    LET content == Get(script, "string", <<>>)
        src == Get(script, "src", <<>>)
    IN  IF TriggersGA(content, src)
        THEN AppendIfFound(data, "google_analytics",
                           extract_google_analytics_info(content, src))
        ELSE IF TriggersGTM(content, src)
        THEN AppendIfFound(data, "google_tag_manager", extract_gtm_info(content, src))
        ELSE IF TriggersFacebook(content, src)
        THEN AppendIfFound(data, "facebook_pixel",
                           extract_facebook_pixel_info(content, src))
        ELSE IF TriggersHotjar(content, src)
        THEN AppendIfFound(data, "hotjar", extract_hotjar_info(content, src))
        ELSE IF TriggersMixpanel(content, src)
        THEN AppendIfFound(data, "mixpanel", extract_mixpanel_info(content, src))
        ELSE IF TriggersOther(content, src)
        THEN [data EXCEPT !["other_tracking"] = Append(@, other_info(content, src))]
        ELSE data

RECURSIVE scan_scripts(_, _)
scan_scripts(scripts, data) ==
    IF scripts = <<>> THEN data
    ELSE scan_scripts(Tail(scripts), classify_script(Head(scripts), data))

\* name = meta.get('name', meta.get('property', ''))
meta_name(meta) == Get(meta, "name", Get(meta, "property", <<>>))

\* the body of the loop over the meta tags, main.py 1065-1080
classify_meta(meta, data) ==
    LET name == meta_name(meta)
        content == Get(meta, "content", <<>>)
    IN  IF Contains(Lower(name), <<"f", "a", "c", "e", "b", "o", "o", "k">>) \/ Contains(Lower(name), <<"f", "b", ":">>)
        THEN [data EXCEPT !["social_media_tracking"] =
                 Append(@, [type |-> <<"f", "a", "c", "e", "b", "o", "o", "k", "_", "m", "e", "t", "a">>, name |-> name, content |-> content])]
        ELSE IF Contains(Lower(name), <<"t", "w", "i", "t", "t", "e", "r">>)
        THEN [data EXCEPT !["social_media_tracking"] =
                 Append(@, [type |-> <<"t", "w", "i", "t", "t", "e", "r", "_", "m", "e", "t", "a">>, name |-> name, content |-> content])]
        ELSE data

RECURSIVE scan_metas(_, _)
scan_metas(metas, data) ==
    IF metas = <<>> THEN data
    ELSE scan_metas(Tail(metas), classify_meta(Head(metas), data))

\* main.py 992-1101
extract_analytics_data(d) ==
    LET collected == scan_metas(find_all(d, "meta"),
                                scan_scripts(find_all(d, "script"), EmptyAnalyticsData))
    IN  [collected EXCEPT !["analytics_summary"] = analytics_summary(collected)]

-----------------------------------------------------------------------------
(* SpecAnalytics: extract_analytics_data applied to documents made of       *)
(* script and meta elements.                                                *)

MaxScripts == 2

\* <script>gtag('config','G-ABCD123456')</script>
ScriptGA4 == [tag |-> "script", string |-> <<"g", "t", "a", "g", "(", "'", "c", "o", "n", "f", "i", "g", "'", ",", "'", "G", "-", "A", "B", "C", "D", "1", "2", "3", "4", "5", "6", "'", ")">>]

\* <script>ga('create','UA-12345-1')</script>
ScriptUA == [tag |-> "script", string |-> <<"g", "a", "(", "'", "c", "r", "e", "a", "t", "e", "'", ",", "'", "U", "A", "-", "1", "2", "3", "4", "5", "-", "1", "'", ")">>]

\* Google Analytics signature, no ID
ScriptGANoId == [tag |-> "script", string |-> <<"g", "a", "(", "'", "s", "e", "n", "d", "'", ",", "'", "p", "a", "g", "e", "v", "i", "e", "w", "'", ")">>]

\* external analytics.js: no inline text
ScriptGASrc == [tag |-> "script", src |-> <<"h", "t", "t", "p", "s", ":", "/", "/", "w", "w", "w", ".", "g", "o", "o", "g", "l", "e", "-", "a", "n", "a", "l", "y", "t", "i", "c", "s", ".", "c", "o", "m", "/", "a", "n", "a", "l", "y", "t", "i", "c", "s", ".", "j", "s">>]

\* the gtag.js loader: no inline text, src holds both "googletagmanager" and "gtag"
ScriptGtagLoader ==
    [tag |-> "script", src |-> <<"h", "t", "t", "p", "s", ":", "/", "/", "w", "w", "w", ".", "g", "o", "o", "g", "l", "e", "t", "a", "g", "m", "a", "n", "a", "g", "e", "r", ".", "c", "o", "m", "/", "g", "t", "a", "g", "/", "j", "s", "?", "i", "d", "=", "G", "-", "A", "B", "C", "D", "1", "2", "3", "4", "5", "6">>]

\* the inline GTM snippet
ScriptGTM ==
    [tag |-> "script", string |-> <<"(", "w", "i", "n", "d", "o", "w", ",", "'", "/", "/", "w", "w", "w", ".", "g", "o", "o", "g", "l", "e", "t", "a", "g", "m", "a", "n", "a", "g", "e", "r", ".", "c", "o", "m", "/", "g", "t", "m", ".", "j", "s", "'", ",", "'", "G", "T", "M", "-", "A", "B", "C", "1", "2", "3", "4", "'", ")">>]

\* text that satisfies the Google Analytics and the GTM signatures, with both IDs
ScriptGAandGTM ==
    [tag |-> "script",
     string |-> <<"g", "t", "a", "g", "(", "'", "j", "s", "'", ",", " ", "\"", "G", "-", "A", "B", "C", "D", "1", "2", "3", "4", "5", "6", "\"", ")", ";", "/", "/", "g", "o", "o", "g", "l", "e", "t", "a", "g", "m", "a", "n", "a", "g", "e", "r", " ", "G", "T", "M", "-", "A", "B", "C", "1", "2", "3", "4">>]

\* <script>fbq('init', '1234567890')</script>
ScriptFacebook == [tag |-> "script", string |-> <<"f", "b", "q", "(", "'", "i", "n", "i", "t", "'", ",", " ", "'", "1", "2", "3", "4", "5", "6", "7", "8", "9", "0", "'", ")">>]

\* Facebook signature without an init call, and a Hotjar ID
ScriptFbqNoIdHotjar ==
    [tag |-> "script", string |-> <<"f", "b", "q", "(", "'", "t", "r", "a", "c", "k", "'", ")", ";", "h", "o", "t", "j", "a", "r", "(", "{", "h", "j", "i", "d", ":", "1", "2", "3", "4", "5", "}", ")">>]

ScriptHotjar == [tag |-> "script", string |-> <<"h", ".", "_", "h", "j", "S", "e", "t", "t", "i", "n", "g", "s", "=", "{", "h", "j", "i", "d", ":", " ", "1", "2", "3", "4", "5", "}", ";", "/", "/", "h", "o", "t", "j", "a", "r">>]

ScriptMixpanel ==
    [tag |-> "script", string |-> <<"m", "i", "x", "p", "a", "n", "e", "l", ".", "i", "n", "i", "t", "(", "\"", "0", "1", "2", "3", "4", "5", "6", "7", "8", "9", "a", "b", "c", "d", "e", "f", "0", "1", "2", "3", "4", "5", "6", "7", "8", "9", "A", "B", "C", "D", "E", "F", "\"", ")">>]

\* an "other" tool, named with a capital letter, that also names mixpanel
ScriptClarity == [tag |-> "script", string |-> <<"C", "l", "a", "r", "i", "t", "y", "(", "\"", "s", "e", "t", "\"", ")">>]

ScriptClarityMixpanel == [tag |-> "script", string |-> <<"c", "l", "a", "r", "i", "t", "y", "(", ")", ";", "m", "i", "x", "p", "a", "n", "e", "l", ".", "t", "r", "a", "c", "k", "(", ")">>]

ScriptPlain == [tag |-> "script", string |-> <<"v", "a", "r", " ", "x", " ", "=", " ", "1", ";">>]

MetaFacebook == [tag |-> "meta", property |-> <<"f", "b", ":", "a", "p", "p", "_", "i", "d">>, content |-> <<"1", "2", "3">>]

MetaTwitter == [tag |-> "meta", name |-> <<"t", "w", "i", "t", "t", "e", "r", ":", "c", "a", "r", "d">>, content |-> <<"s", "u", "m", "m", "a", "r", "y">>]

\* a gtag config call after an older GA4 id kept in a variable
ScriptTwoGA4Ids == [tag |-> "script", string |-> <<"v", "a", "r", " ", "o", "l", "d", "=", "'", "G", "-", "Z", "Z", "Z", "Z", "9", "9", "9", "9", "9", "9", "'", ";", "g", "t", "a", "g", "(", "'", "c", "o", "n", "f", "i", "g", "'", ",", "'", "G", "-", "A", "B", "C", "D", "1", "2", "3", "4", "5", "6", "'", ")">>]

AnalyticsCatalogue ==
    {ScriptGA4, ScriptUA, ScriptGANoId, ScriptGASrc, ScriptGtagLoader, ScriptGTM, ScriptGAandGTM,
     ScriptFacebook, ScriptFbqNoIdHotjar, ScriptHotjar, ScriptMixpanel, ScriptClarity,
     ScriptClarityMixpanel, ScriptPlain, ScriptTwoGA4Ids, MetaFacebook, MetaTwitter}

InitAnalytics ==
    /\ pc = "parsed"
    /\ doc \in SeqsUpTo(AnalyticsCatalogue, MaxScripts)
    /\ url = None
    /\ analytics_data = <<>>
    /\ seo_data = NotCalled
    /\ scraped_data = NotCalled /\ analysis = NotCalled /\ site_dir = NotCalled
    /\ files = <<>>
    /\ KeywordIdle /\ ScoreIdle /\ ProjectIdle /\ ServiceIdle

ExtractAnalytics ==
    /\ pc = "parsed"
    /\ analytics_data' = extract_analytics_data(doc)
    /\ pc' = "fingerprinted"
    /\ UNCHANGED <<pipelineVars, keywordVars, scoreVars, projectVars, serviceVars, seo_data>>

NextAnalytics == ExtractAnalytics

SpecAnalytics == InitAnalytics /\ [][NextAnalytics]_vars

\* the first signature of the chain that a script triggers
FirstSignature(script) ==
    LET content == IF "string" \in DOMAIN script THEN script.string ELSE <<>>
        src == IF "src" \in DOMAIN script THEN script.src ELSE <<>>
    IN  CASE TriggersGA(content, src) -> "google_analytics"
          [] ~TriggersGA(content, src) /\ TriggersGTM(content, src) -> "google_tag_manager"
          [] ~TriggersGA(content, src) /\ ~TriggersGTM(content, src)
             /\ TriggersFacebook(content, src) -> "facebook_pixel"
          [] ~TriggersGA(content, src) /\ ~TriggersGTM(content, src)
             /\ ~TriggersFacebook(content, src) /\ TriggersHotjar(content, src) -> "hotjar"
          [] ~TriggersGA(content, src) /\ ~TriggersGTM(content, src)
             /\ ~TriggersFacebook(content, src) /\ ~TriggersHotjar(content, src)
             /\ TriggersMixpanel(content, src) -> "mixpanel"
          [] ~TriggersGA(content, src) /\ ~TriggersGTM(content, src)
             /\ ~TriggersFacebook(content, src) /\ ~TriggersHotjar(content, src)
             /\ ~TriggersMixpanel(content, src) /\ TriggersOther(content, src)
                -> "other_tracking"
          [] OTHER -> "none"

\* whether the extractor of signature k finds an ID in the script
YieldsId(script, k) ==
    LET content == IF "string" \in DOMAIN script THEN script.string ELSE <<>>
        src == IF "src" \in DOMAIN script THEN script.src ELSE <<>>
    IN  CASE k = "google_analytics" -> extract_google_analytics_info(content, src) # NoneDict
          [] k = "google_tag_manager" -> extract_gtm_info(content, src) # NoneDict
          [] k = "facebook_pixel" -> extract_facebook_pixel_info(content, src) # NoneDict
          [] k = "hotjar" -> extract_hotjar_info(content, src) # NoneDict
          [] k = "mixpanel" -> extract_mixpanel_info(content, src) # NoneDict
          [] k = "other_tracking" -> TRUE
          [] OTHER -> FALSE

\* the scripts of the document that are classified as k and yield an ID
ScriptsRecordedAs(k) ==
    SelectSeq(find_all(doc, "script"),
              LAMBDA s : FirstSignature(s) = k /\ YieldsId(s, k))

ToolKeySet == {ToolKeys[i] : i \in 1..Len(ToolKeys)}

\* C3: each script is classified by the first signature it triggers and by no
\* later one: each tool list holds one record per script whose first signature
\* is that tool and whose ID was found (the src of the records in order is the
\* src of those scripts), so a script gives at most one record, a triggered
\* script without an ID gives none, and total_tracking_tools is at most the
\* number of scripts.
C3_FirstMatchWins ==
    pc = "fingerprinted" =>
        /\ \A k \in ToolKeySet :
              /\ Len(analytics_data[k]) = Len(ScriptsRecordedAs(k))
              /\ \A i \in 1..Len(analytics_data[k]) :
                    /\ analytics_data[k][i].src =
                          (IF "src" \in DOMAIN ScriptsRecordedAs(k)[i]
                           THEN ScriptsRecordedAs(k)[i].src ELSE <<>>)
                    /\ analytics_data[k][i].content_preview =
                          (IF "string" \in DOMAIN ScriptsRecordedAs(k)[i]
                           THEN ScriptsRecordedAs(k)[i].string ELSE <<>>)
        /\ analytics_data["analytics_summary"].total_tracking_tools
              <= Len(find_all(doc, "script"))

C3_Witness ==
    /\ pc = "fingerprinted"
    /\ doc = <<ScriptGAandGTM, ScriptFbqNoIdHotjar>>
    /\ Len(analytics_data["google_analytics"]) = 1
    /\ analytics_data["google_tag_manager"] = <<>>
    /\ analytics_data["facebook_pixel"] = <<>>
    /\ analytics_data["hotjar"] = <<>>
    /\ analytics_data["analytics_summary"].total_tracking_tools = 1

-----------------------------------------------------------------------------
(* urllib.parse, as far as extract_seo_metadata uses it (main.py 144-168). *)
(* A parse either fails, as urlsplit does with ValueError on a netloc with *)
(* an unmatched bracket, or gives the parts.  Params (";"), leading        *)
(* whitespace and dot segments do not occur in the URLs modelled.          *)

\* s.find(c) + 1: the first index of a character of C in s, 0 if none
FindAny(s, C) ==
    IF \E i \in 1..Len(s) : s[i] \in C
    THEN CHOOSE i \in 1..Len(s) : s[i] \in C /\ \A j \in 1..(i - 1) : s[j] \notin C
    ELSE 0

\* the last index of character c in s, 0 if none
FindLast(s, c) ==
    IF \E i \in 1..Len(s) : s[i] = c
    THEN CHOOSE i \in 1..Len(s) : s[i] = c /\ \A j \in (i + 1)..Len(s) : s[j] # c
    ELSE 0

SchemeChars == LowerLetters \cup UpperLetters \cup Digits \cup {"+", "-", "."}

\* the schemes of urllib.parse.uses_relative and uses_netloc that the URLs use
UsesRelative == {<<"h", "t", "t", "p">>, <<"h", "t", "t", "p", "s">>, <<"f", "t", "p">>, <<>>}
UsesNetloc == {<<"h", "t", "t", "p">>, <<"h", "t", "t", "p", "s">>, <<"f", "t", "p">>, <<>>}

ParseError == [ok |-> FALSE]

\* the index of the colon that ends the scheme of u, 0 when u has no scheme
SchemeEnd(u) ==
    LET colon == FindAny(u, {":"})
    IN  IF /\ colon > 1
           /\ u[1] \in LowerLetters \cup UpperLetters
           /\ \A j \in 1..(colon - 1) : u[j] \in SchemeChars
        THEN colon ELSE 0

\* the part of s before the first character of C, all of s when it has none
Before(s, C) == IF FindAny(s, C) = 0 THEN s ELSE SubSeq(s, 1, FindAny(s, C) - 1)

\* the part of s from the first character of C on, empty when it has none
From(s, C) == IF FindAny(s, C) = 0 THEN <<>> ELSE SubSeq(s, FindAny(s, C), Len(s))

\* the netloc of what follows the scheme, and what follows the netloc
NetlocOf(rest) ==
    IF StartsWith(rest, <<"/", "/">>) THEN Before(SubSeq(rest, 3, Len(rest)), {"/", "?", "#"}) ELSE <<>>

AfterNetloc(rest) ==
    IF StartsWith(rest, <<"/", "/">>) THEN From(SubSeq(rest, 3, Len(rest)), {"/", "?", "#"}) ELSE rest

\* the part of s after the first character of C, empty when it has none
After(s, C) == IF FindAny(s, C) = 0 THEN <<>> ELSE SubSeq(s, FindAny(s, C) + 1, Len(s))

\* urlsplit after the scheme: netloc, then fragment, then query, then path
split_rest(scheme, rest) ==
    [ok |-> TRUE, scheme |-> scheme, netloc |-> NetlocOf(rest),
     path |-> Before(AfterNetloc(rest), {"?", "#"}),
     query |-> After(Before(AfterNetloc(rest), {"#"}), {"?"}),
     fragment |-> After(AfterNetloc(rest), {"#"})]

\* ValueError("Invalid IPv6 URL"): a netloc with one bracket but not the other
checked_netloc(p) ==
    IF Contains(p.netloc, <<"[">>) # Contains(p.netloc, <<"]">>) THEN ParseError ELSE p

\* urlparse(u, scheme=default)
urlparse_default(u, default) ==
    checked_netloc(
        split_rest(IF SchemeEnd(u) > 0 THEN Lower(SubSeq(u, 1, SchemeEnd(u) - 1)) ELSE default,
                   IF SchemeEnd(u) > 0 THEN SubSeq(u, SchemeEnd(u) + 1, Len(u)) ELSE u))

\* urlparse(u)
urlparse(u) == urlparse_default(u, <<>>)

\* urlunparse
urlunparse(p) ==
    (IF p.scheme # <<>> THEN p.scheme \o <<":">> ELSE <<>>)
    \o (IF p.netloc # <<>> \/ (p.scheme # <<>> /\ p.scheme \in UsesNetloc
                               /\ ~StartsWith(p.path, <<"/", "/">>))
        THEN <<"/", "/">> \o p.netloc \o (IF p.path # <<>> /\ p.path[1] # "/" THEN <<"/">> ELSE <<>>)
        ELSE <<>>)
    \o p.path
    \o (IF p.query # <<>> THEN <<"?">> \o p.query ELSE <<>>)
    \o (IF p.fragment # <<>> THEN <<"#">> \o p.fragment ELSE <<>>)

\* the path of r merged with the directory of the base path
merged_path(b, r) ==
    IF r.path[1] = "/" THEN r.path
    ELSE IF SubSeq(b.path, 1, FindLast(b.path, "/")) \o r.path = <<>> THEN <<"/">>
    ELSE SubSeq(b.path, 1, FindLast(b.path, "/")) \o r.path

\* the parts of the joined URL when the reference r has the scheme of the base b
joined(b, r) ==
    IF r.scheme \in UsesNetloc /\ r.netloc # <<>> THEN r
    ELSE IF r.path = <<>>
        THEN [r EXCEPT !.netloc = b.netloc, !.path = b.path,
                       !.query = IF r.query # <<>> THEN r.query ELSE b.query]
    ELSE [r EXCEPT !.netloc = b.netloc, !.path = merged_path(b, r)]

\* urljoin once base and reference are parsed
join_parsed(b, r, u) ==
    IF ~r.ok THEN ParseError
    ELSE IF r.scheme # b.scheme \/ r.scheme \notin UsesRelative THEN [ok |-> TRUE, value |-> u]
    ELSE [ok |-> TRUE, value |-> urlunparse(joined(b, r))]

\* urljoin once the base is parsed: the reference is parsed with its scheme
join_base(b, u) == IF ~b.ok THEN ParseError ELSE join_parsed(b, urlparse_default(u, b.scheme), u)

\* urljoin(base, u): [ok |-> TRUE, value |-> the joined URL] or ParseError
urljoin(base, u) ==
    IF base = <<>> THEN [ok |-> TRUE, value |-> u]
    ELSE IF u = <<>> THEN [ok |-> TRUE, value |-> base]
    ELSE join_base(urlparse(base), u)

-----------------------------------------------------------------------------
(* Metadata and structural extractor: extract_seo_metadata, main.py 35-226. *)
(* The steps of the function are the operators below, each taking the       *)
(* seo_data dict built so far and returning it updated.                     *)

\* d[k] = v on a dict
DictSet(d, k, v) == [x \in DOMAIN d \cup {k} |-> IF x = k THEN v ELSE d[x]]

\* the seo_data dict as created, main.py 46-69; the same literal is the
\* fallback of simple_web_scraper, main.py 314-337
EmptySeoData ==
    [meta_tags |-> <<>>, open_graph |-> <<>>, twitter_cards |-> <<>>,
     structured_data |-> <<>>, headings |-> <<>>, images |-> <<>>,
     internal_links |-> <<>>, external_links |-> <<>>,
     canonical_url |-> None, robots_directive |-> None, language |-> None,
     charset |-> None, viewport |-> None, favicon |-> None, sitemap |-> None,
     rss_feeds |-> <<>>, social_links |-> <<>>, analytics |-> <<>>,
     word_count |-> 0, keyword_density |-> <<>>,
     page_speed_indicators |-> <<>>, detailed_analytics |-> <<>>]

\* the loop body with dict.setdefault in place of the assignment
store_meta_first_wins(meta, seo) ==
    LET name == meta_name(meta)
        content == Get(meta, "content", <<>>)
        stored == [seo EXCEPT !.meta_tags = IF name \in DOMAIN @ THEN @ ELSE DictSet(@, name, content)]
    IN  IF name = <<>> THEN seo
        ELSE IF StartsWith(name, <<"o", "g", ":">>)
        THEN [stored EXCEPT !.open_graph = DictSet(@, name, content)]
        ELSE IF StartsWith(name, <<"t", "w", "i", "t", "t", "e", "r", ":">>)
        THEN [stored EXCEPT !.twitter_cards = DictSet(@, name, content)]
        ELSE IF name = <<"r", "o", "b", "o", "t", "s">> THEN [stored EXCEPT !.robots_directive = content]
        ELSE IF name = <<"v", "i", "e", "w", "p", "o", "r", "t">> THEN [stored EXCEPT !.viewport = content]
        ELSE IF name = <<"c", "h", "a", "r", "s", "e", "t">> THEN [stored EXCEPT !.charset = content]
        ELSE IF name = <<"l", "a", "n", "g", "u", "a", "g", "e">> THEN [stored EXCEPT !.language = content]
        ELSE stored

\* the body of the loop over the meta tags, main.py 72-91
store_meta(meta, seo) ==
    LET name == meta_name(meta)
        content == Get(meta, "content", <<>>)
        stored == [seo EXCEPT !.meta_tags = DictSet(@, name, content)]
    IN  IF name = <<>> THEN seo
        ELSE IF StartsWith(name, <<"o", "g", ":">>)
        THEN [stored EXCEPT !.open_graph = DictSet(@, name, content)]
        ELSE IF StartsWith(name, <<"t", "w", "i", "t", "t", "e", "r", ":">>)
        THEN [stored EXCEPT !.twitter_cards = DictSet(@, name, content)]
        ELSE IF name = <<"r", "o", "b", "o", "t", "s">> THEN [stored EXCEPT !.robots_directive = content]
        ELSE IF name = <<"v", "i", "e", "w", "p", "o", "r", "t">> THEN [stored EXCEPT !.viewport = content]
        ELSE IF name = <<"c", "h", "a", "r", "s", "e", "t">> THEN [stored EXCEPT !.charset = content]
        ELSE IF name = <<"l", "a", "n", "g", "u", "a", "g", "e">> THEN [stored EXCEPT !.language = content]
        ELSE stored

RECURSIVE store_metas(_, _)
store_metas(metas, seo) ==
    IF metas = <<>> THEN seo
    ELSE store_metas(Tail(metas), store_meta(Head(metas), seo))

\* " ".join(values)
RECURSIVE JoinSpace(_)
JoinSpace(values) ==
    IF values = <<>> THEN <<>>
    ELSE IF Len(values) = 1 THEN values[1]
    ELSE values[1] \o <<" ">> \o JoinSpace(Tail(values))

\* whether a link element matches rel=value: rel is a multi-valued attribute,
\* matched by any one of its values or by the whole attribute
RelIs(e, value) ==
    /\ e.tag = "link"
    /\ "rel" \in DOMAIN e
    /\ \/ \E i \in 1..Len(e.rel) : e.rel[i] = value
       \/ JoinSpace(e.rel) = value

\* soup.find_all('link', rel=value)
find_links(d, value) == SelectSeq(d, LAMBDA e : RelIs(e, value))

\* soup.find('link', rel=value).get('href'), or the current value when there
\* is no such element
first_link_href(d, value, current) ==
    IF find_links(d, value) = <<>> THEN current
    ELSE Get(find_links(d, value)[1], "href", None)

\* main.py 93-106
store_link_rels(d, seo) ==
    [seo EXCEPT
        !.canonical_url = first_link_href(d, <<"c", "a", "n", "o", "n", "i", "c", "a", "l">>, @),
        !.favicon = IF find_links(d, <<"i", "c", "o", "n">>) # <<>>
                    THEN first_link_href(d, <<"i", "c", "o", "n">>, @)
                    ELSE first_link_href(d, <<"s", "h", "o", "r", "t", "c", "u", "t", " ", "i", "c", "o", "n">>, @),
        !.sitemap = first_link_href(d, <<"s", "i", "t", "e", "m", "a", "p">>, @)]

FeedTypes == {<<"a", "p", "p", "l", "i", "c", "a", "t", "i", "o", "n", "/", "r", "s", "s", "+", "x", "m", "l">>, <<"a", "p", "p", "l", "i", "c", "a", "t", "i", "o", "n", "/", "a", "t", "o", "m", "+", "x", "m", "l">>}

\* main.py 108-115
rss_feeds(d) ==
    LET feeds == SelectSeq(find_links(d, <<"a", "l", "t", "e", "r", "n", "a", "t", "e">>),
                           LAMBDA e : Get(e, "type", None) \in FeedTypes)
    IN  [i \in 1..Len(feeds) |->
            [href |-> Get(feeds[i], "href", None),
             title |-> Get(feeds[i], "title", None),
             type |-> Get(feeds[i], "type", None)]]

(* json.loads on the subset of JSON the documents use: objects, arrays,    *)
(* strings without escapes, unsigned integers and the three literals.  The *)
(* decoder descends one frame per nested array or object and raises        *)
(* RecursionError when it runs out of frames (about 1000 of them in        *)
(* CPython); JsonDepth stands for that depth.  The parsed value is kept as *)
(* its type name and its source text.                                      *)

JsonDepth == 2

JsonStringChars ==
    LowerLetters \cup UpperLetters \cup Digits \cup {" ", "@", ":", "/", ".", "-", "_"}

JsonWs(s, P) == ReRep(s, P, Whitespace, 0, Len(s))

JsonStringEnds(s, P) ==
    ReLit(s, ReRep(s, ReLit(s, P, <<"\"">>), JsonStringChars, 0, Len(s)), <<"\"">>)

JsonScalarEnds(s, P) ==
    JsonStringEnds(s, P) \cup ReRep(s, P, Digits, 1, Len(s))
    \cup ReLit(s, P, <<"t", "r", "u", "e">>) \cup ReLit(s, P, <<"f", "a", "l", "s", "e">>) \cup ReLit(s, P, <<"n", "u", "l", "l">>)

\* the positions after k further ",item" of a list whose items end as Item says
RECURSIVE JsonMore(_, _, _, _)
JsonMore(s, P, Item(_), k) ==
    IF k = 0 \/ P = {} THEN P
    ELSE P \cup JsonMore(s, JsonWs(s, Item(JsonWs(s, ReLit(s, P, <<",">>)))), Item, k - 1)

RECURSIVE JsonValueEnds(_, _, _)
JsonValueEnds(s, P, depth) ==
    IF depth = 0 THEN JsonScalarEnds(s, P)
    ELSE LET Value(Q) == JsonValueEnds(s, Q, depth - 1)
             Member(Q) == Value(JsonWs(s, ReLit(s, JsonWs(s, JsonStringEnds(s, Q)), <<":">>)))
             open_obj == JsonWs(s, ReLit(s, P, <<"{">>))
             open_arr == JsonWs(s, ReLit(s, P, <<"[">>))
         IN  JsonScalarEnds(s, P)
             \cup ReLit(s, open_obj, <<"}">>)
             \cup ReLit(s, JsonMore(s, JsonWs(s, Member(open_obj)), Member, Len(s)), <<"}">>)
             \cup ReLit(s, open_arr, <<"]">>)
             \cup ReLit(s, JsonMore(s, JsonWs(s, Value(open_arr)), Value, Len(s)), <<"]">>)

JsonTypeName(s) ==
    LET first == s[SetMax(JsonWs(s, {1}))]
    IN  IF first = "{" THEN <<"d", "i", "c", "t">>
        ELSE IF first = "[" THEN <<"l", "i", "s", "t">>
        ELSE IF first = "\"" THEN <<"s", "t", "r">>
        ELSE IF first \in Digits THEN <<"i", "n", "t">>
        ELSE IF first = "n" THEN <<"N", "o", "n", "e", "T", "y", "p", "e">>
        ELSE <<"b", "o", "o", "l">>

\* the number of [ a text opens with: the decoder descends that deep before it
\* reads anything else
RECURSIVE LeadingArrays(_)
LeadingArrays(text) ==
    IF text = <<>> THEN 0
    ELSE IF text[1] \in Whitespace THEN LeadingArrays(Tail(text))
    ELSE IF text[1] = "[" THEN 1 + LeadingArrays(Tail(text))
    ELSE 0

\* json.loads(text): the parsed value, or the exception raised
json_loads(text) ==
    IF text = None THEN Raised("TypeError")
    ELSE IF LeadingArrays(text) > JsonDepth THEN Raised("RecursionError")
    ELSE IF (Len(text) + 1) \in JsonWs(text, JsonValueEnds(text, JsonWs(text, {1}), JsonDepth))
    THEN Returned([type |-> JsonTypeName(text), text |-> text])
    ELSE Raised("JSONDecodeError")

\* soup.find_all('script', type='application/ld+json')
IsJsonLd(e) == e.tag = "script" /\ Get(e, "type", None) = <<"a", "p", "p", "l", "i", "c", "a", "t", "i", "o", "n", "/", "l", "d", "+", "j", "s", "o", "n">>

\* main.py 118-123, for the outcome of json.loads on one script: the blocks
\* with the parsed one appended, the blocks as they are after a caught
\* exception, or the exception that is not caught
append_parsed(blocks, parsed) ==
    IF HasReturned(parsed) THEN Returned(Append(blocks, parsed.value))
    ELSE IF parsed.exception \in {"JSONDecodeError", "TypeError"} THEN Returned(blocks)
    ELSE parsed

\* main.py 117-123: the loop over the JSON-LD scripts
RECURSIVE parse_blocks(_, _)
next_block(r, rest) == IF HasRaised(r) THEN r ELSE parse_blocks(rest, r.value)
parse_blocks(scripts, blocks) ==
    IF scripts = <<>> THEN Returned(blocks)
    ELSE next_block(append_parsed(blocks, json_loads(Get(Head(scripts), "string", None))),
                    Tail(scripts))

\* main.py 117-123
structured_data(d) == parse_blocks(SelectSeq(d, IsJsonLd), <<>>)

\* str.strip()
RECURSIVE Strip(_)
Strip(s) ==
    IF s = <<>> THEN s
    ELSE IF s[1] \in Whitespace THEN Strip(Tail(s))
    ELSE IF s[Len(s)] \in Whitespace THEN Strip(SubSeq(s, 1, Len(s) - 1))
    ELSE s

\* element.get_text(strip=True), for an element with at most one text child
get_text_strip(e) == Strip(Get(e, "text", <<>>))

HeadingTags == <<"h1", "h2", "h3", "h4", "h5", "h6">>

\* main.py 125-128
headings(d) ==
    [k \in {HeadingTags[i] : i \in 1..6} |->
        LET found == find_all(d, k) IN [i \in 1..Len(found) |-> get_text_strip(found[i])]]

\* main.py 131-141
images(d) ==
    LET found == find_all(d, "img")
    IN  [i \in 1..Len(found) |->
            [src |-> Get(found[i], "src", None),
             alt |-> Get(found[i], "alt", <<>>),
             title |-> Get(found[i], "title", <<>>),
             width |-> Get(found[i], "width", None),
             height |-> Get(found[i], "height", None),
             loading |-> Get(found[i], "loading", <<>>),
             decoding |-> Get(found[i], "decoding", <<>>)]]

social_domains ==
    <<<<"f", "a", "c", "e", "b", "o", "o", "k", ".", "c", "o", "m">>, <<"t", "w", "i", "t", "t", "e", "r", ".", "c", "o", "m">>, <<"i", "n", "s", "t", "a", "g", "r", "a", "m", ".", "c", "o", "m">>, <<"l", "i", "n", "k", "e", "d", "i", "n", ".", "c", "o", "m">>,
      <<"y", "o", "u", "t", "u", "b", "e", ".", "c", "o", "m">>, <<"t", "i", "k", "t", "o", "k", ".", "c", "o", "m">>, <<"p", "i", "n", "t", "e", "r", "e", "s", "t", ".", "c", "o", "m">>, <<"r", "e", "d", "d", "i", "t", ".", "c", "o", "m">>>>

\* main.py 150-155: the URL an href stands for; both the first and the last
\* branch of the source are urljoin(url, href)
resolve_href(u, href) ==
    IF ~StartsWith(href, <<"/">>) /\ StartsWith(href, <<"h", "t", "t", "p">>)
    THEN [ok |-> TRUE, value |-> href]
    ELSE urljoin(u, href)

\* main.py 157-164
link_data(link, full_url) ==
    [href |-> link.href, full_url |-> full_url,
     text |-> get_text_strip(link),
     title |-> Get(link, "title", <<>>),
     rel |-> Get(link, "rel", <<>>),
     target |-> Get(link, "target", <<>>)]

\* the social test made on every link, before the comparison of the hosts
file_link_social_first(data, link_netloc, base_netloc, seo) ==
    LET listed == IF \E i \in 1..Len(social_domains) : Contains(link_netloc, social_domains[i])
                  THEN [seo EXCEPT !.social_links = Append(@, data)]
                  ELSE seo
    IN  IF link_netloc = base_netloc
        THEN [listed EXCEPT !.internal_links = Append(@, data)]
        ELSE [listed EXCEPT !.external_links = Append(@, data)]

\* main.py 168-177
file_link(data, link_netloc, base_netloc, seo) ==
    IF link_netloc = base_netloc
    THEN [seo EXCEPT !.internal_links = Append(@, data)]
    ELSE IF \E i \in 1..Len(social_domains) : Contains(link_netloc, social_domains[i])
    THEN [seo EXCEPT !.external_links = Append(@, data),
                     !.social_links = Append(@, data)]
    ELSE [seo EXCEPT !.external_links = Append(@, data)]

\* main.py 167, for the value of full_url
parse_link(link, full_url, link_parsed, base_netloc, seo) ==
    IF ~link_parsed.ok THEN Raised("ValueError")
    ELSE Returned(file_link(link_data(link, full_url), link_parsed.netloc, base_netloc, seo))

\* main.py 157-177, for the outcome of resolving the href
place_link(link, full_url, base_netloc, seo) ==
    IF ~full_url.ok THEN Raised("ValueError")
    ELSE parse_link(link, full_url.value, urlparse(full_url.value), base_netloc, seo)

\* the body of the loop over the anchors, main.py 146-177: the seo_data
\* updated, or the exception urljoin or urlparse raises
categorize_link(link, u, base_netloc, seo) ==
    place_link(link, resolve_href(u, link.href), base_netloc, seo)

\* the loop over the anchors, main.py 145-177
RECURSIVE categorize_links(_, _, _, _)
next_link(r, rest, u, base_netloc) ==
    IF HasRaised(r) THEN r ELSE categorize_links(rest, u, base_netloc, r.value)
categorize_links(anchors, u, base_netloc, seo) ==
    IF anchors = <<>> THEN Returned(seo)
    ELSE next_link(categorize_link(Head(anchors), u, base_netloc, seo), Tail(anchors), u, base_netloc)

\* soup.find_all('a', href=True)
anchors_with_href(d) == SelectSeq(d, LAMBDA e : e.tag = "a" /\ "href" \in DOMAIN e)

analytics_patterns ==
    <<<<"g", "o", "o", "g", "l", "e", "-", "a", "n", "a", "l", "y", "t", "i", "c", "s">>, <<"g", "t", "a", "g">>, <<"g", "a", "(">>, <<"g", "o", "o", "g", "l", "e", "t", "a", "g", "m", "a", "n", "a", "g", "e", "r">>, <<"f", "a", "c", "e", "b", "o", "o", "k">>, <<"f", "b", "q">>,
      <<"p", "i", "x", "e", "l">>, <<"h", "o", "t", "j", "a", "r">>, <<"m", "i", "x", "p", "a", "n", "e", "l">>>>

PatternIn(script, i) ==
    \/ Contains(Lower(Get(script, "string", <<>>)), analytics_patterns[i])
    \/ Contains(Lower(Get(script, "src", <<>>)), analytics_patterns[i])

\* main.py 183-194: one record per script that holds a pattern, for the first
\* pattern of the list it holds
analytics_scripts(d) ==
    LET hits == SelectSeq(find_all(d, "script"),
                          LAMBDA s : \E i \in 1..Len(analytics_patterns) : PatternIn(s, i))
    IN  [n \in 1..Len(hits) |->
            [type |-> analytics_patterns[
                         CHOOSE i \in 1..Len(analytics_patterns) :
                            /\ PatternIn(hits[n], i)
                            /\ \A j \in 1..(i - 1) : ~PatternIn(hits[n], j)],
             src |-> Get(hits[n], "src", <<>>),
             content_preview |-> content_preview(Get(hits[n], "string", <<>>))]]

\* the text of one element as soup.get_text() sees it: the strings inside
\* script and style elements are not part of the text
text_of(e) ==
    IF e.tag \in {"script", "style"} THEN <<>>
    ELSE IF "text" \in DOMAIN e THEN e.text
    ELSE Get(e, "string", <<>>)

\* soup.get_text()
RECURSIVE get_text(_)
get_text(d) == IF d = <<>> THEN <<>> ELSE text_of(Head(d)) \o get_text(Tail(d))

WordChars == LowerLetters \cup UpperLetters \cup Digits \cup {"_"}

\* re.findall(r'\b\w+\b', s): the maximal runs of word characters
RECURSIVE findall_words(_)
findall_words(s) ==
    IF s = <<>> THEN <<>>
    ELSE IF s[1] \notin WordChars THEN findall_words(Tail(s))
    ELSE LET stop == FindAny(s, {s[i] : i \in 1..Len(s)} \ WordChars)
         IN  IF stop = 0 THEN <<s>>
             ELSE <<SubSeq(s, 1, stop - 1)>> \o findall_words(SubSeq(s, stop, Len(s)))

\* collections.Counter(words)
RECURSIVE Counter(_)
Counter(words) ==
    IF words = <<>> THEN <<>>
    ELSE CounterAdd(Counter(SubSeq(words, 1, Len(words) - 1)), words[Len(words)])

\* main.py 217-224
page_speed_indicators(d, seo) ==
    [total_images |-> Len(seo.images),
     images_without_alt |-> Len(SelectSeq(seo.images, LAMBDA img : img.alt = <<>>)),
     total_scripts |-> Len(find_all(d, "script")),
     total_stylesheets |-> Len(find_links(d, <<"s", "t", "y", "l", "e", "s", "h", "e", "e", "t">>)),
     inline_styles |-> Len(SelectSeq(d, LAMBDA e : "style" \in DOMAIN e)),
     total_links |-> Len(seo.internal_links) + Len(seo.external_links)]

\* main.py 72-141: seo_data before the links are read, for the parsed JSON-LD blocks
before_links(d, blocks) ==
    [store_link_rels(d, store_metas(find_all(d, "meta"), EmptySeoData)) EXCEPT
        !.rss_feeds = rss_feeds(d),
        !.structured_data = blocks,
        !.headings = headings(d),
        !.images = images(d)]

\* main.py 216-226
with_speed_indicators(d, seo) ==
    [seo EXCEPT !.page_speed_indicators = page_speed_indicators(d, seo)]

\* main.py 179-214, for the words of the page text
with_analytics_and_words(d, seo, words) ==
    [seo EXCEPT !.analytics = analytics_scripts(d),
                !.detailed_analytics = extract_analytics_data(d),
                !.word_count = Len(words),
                !.keyword_density = top_keywords(Counter(words))]

\* main.py 179-226, for the outcome of the loop over the anchors
after_links(d, linked) ==
    IF HasRaised(linked) THEN linked
    ELSE Returned(with_speed_indicators(d,
             with_analytics_and_words(d, linked.value, findall_words(Lower(get_text(d))))))

\* main.py 144-226, for base_url and the seo_data before the links are read
links_from(d, u, base_url, seo) ==
    IF ~base_url.ok THEN Raised("ValueError")
    ELSE after_links(d, categorize_links(anchors_with_href(d), u, base_url.netloc, seo))

\* main.py 125-226, for the outcome of the loop over the JSON-LD scripts
after_blocks(d, u, parsed) ==
    IF HasRaised(parsed) THEN parsed
    ELSE links_from(d, u, urlparse(u), before_links(d, parsed.value))

\* main.py 35-226: the seo_data dict, or the exception raised on the way
extract_seo_metadata(d, u) == after_blocks(d, u, structured_data(d))

-----------------------------------------------------------------------------
(* SpecLinks: extract_seo_metadata applied to documents made of anchors.    *)

MaxAnchors == 2

SourceUrl == <<"h", "t", "t", "p", "s", ":", "/", "/", "a", ".", "i", "o", "/", "d", "o", "c", "s", "/">>

AnchorRootRelative == [tag |-> "a", href |-> <<"/", "a", "b", "o", "u", "t">>, text |-> <<"A", "b", "o", "u", "t">>]

AnchorAbsoluteSameHost == [tag |-> "a", href |-> <<"h", "t", "t", "p", "s", ":", "/", "/", "a", ".", "i", "o", "/", "x">>, text |-> <<" ", "H", "o", "m", "e", " ">>]

AnchorAbsoluteOtherHost == [tag |-> "a", href |-> <<"h", "t", "t", "p", "s", ":", "/", "/", "b", ".", "i", "o", "/">>, text |-> <<"P", "a", "r", "t", "n", "e", "r">>]

AnchorRelative == [tag |-> "a", href |-> <<"c", "o", "n", "t", "a", "c", "t", ".", "h", "t", "m", "l">>, text |-> <<"C", "o", "n", "t", "a", "c", "t">>]

\* a relative href whose file name begins with "http"
AnchorRelativeHttpName == [tag |-> "a", href |-> <<"h", "t", "t", "p", "-", "g", "u", "i", "d", "e", ".", "h", "t", "m", "l">>, text |-> <<"G", "u", "i", "d", "e">>]

AnchorSchemeRelative == [tag |-> "a", href |-> <<"/", "/", "b", ".", "i", "o", "/", "y">>, text |-> <<"M", "i", "r", "r", "o", "r">>]

AnchorFragment == [tag |-> "a", href |-> <<"#", "t", "o", "p">>, text |-> <<"T", "o", "p">>]

AnchorMailto == [tag |-> "a", href |-> <<"m", "a", "i", "l", "t", "o", ":", "m", "e", "@", "a", ".", "i", "o">>, text |-> <<"M", "a", "i", "l">>]

AnchorSocial ==
    [tag |-> "a", href |-> <<"h", "t", "t", "p", "s", ":", "/", "/", "w", "w", "w", ".", "f", "a", "c", "e", "b", "o", "o", "k", ".", "c", "o", "m", "/", "p", "a", "g", "e">>, text |-> <<"F", "a", "c", "e", "b", "o", "o", "k">>,
     rel |-> <<<<"n", "o", "f", "o", "l", "l", "o", "w">>>>, target |-> <<"_", "b", "l", "a", "n", "k">>]

\* an anchor without href: find_all('a', href=True) skips it
AnchorNoHref == [tag |-> "a", text |-> <<"N", "o", "w", "h", "e", "r", "e">>]

\* urlparse raises ValueError("Invalid IPv6 URL") on this href
AnchorBadNetloc == [tag |-> "a", href |-> <<"h", "t", "t", "p", ":", "/", "/", "[", "b", "a", "d">>, text |-> <<"B", "r", "o", "k", "e", "n">>]

AnchorCatalogue ==
    {AnchorRootRelative, AnchorAbsoluteSameHost, AnchorAbsoluteOtherHost, AnchorRelative,
     AnchorRelativeHttpName, AnchorSchemeRelative, AnchorFragment, AnchorMailto,
     AnchorSocial, AnchorNoHref, AnchorBadNetloc}

InitLinks ==
    /\ pc = "parsed"
    /\ url = SourceUrl
    /\ doc \in SeqsUpTo(AnchorCatalogue, MaxAnchors)
    /\ seo_data = NotCalled
    /\ analytics_data = <<>>
    /\ scraped_data = NotCalled /\ analysis = NotCalled /\ site_dir = NotCalled
    /\ files = <<>>
    /\ KeywordIdle /\ ScoreIdle /\ ProjectIdle /\ ServiceIdle

ExtractSeoMetadata ==
    /\ pc = "parsed"
    /\ seo_data' = extract_seo_metadata(doc, url)
    /\ pc' = "extracted"
    /\ UNCHANGED <<pipelineVars, keywordVars, scoreVars, projectVars, serviceVars, analytics_data>>

NextLinks == ExtractSeoMetadata

SpecLinks == InitLinks /\ [][NextLinks]_vars

\* the netloc of an href resolved against the source URL
ResolvedNetloc(href) == urlparse(urljoin(url, href).value).netloc

HrefsOf(links) == [i \in 1..Len(links) |-> links[i].href]

\* C6: an anchor is in internal_links exactly when its href, resolved against
\* the source URL, has the host of the source URL, and in external_links
\* otherwise, whatever the form of the href.
C6_HostBasedClassification ==
    (pc = "extracted" /\ HasReturned(seo_data)) =>
        /\ HrefsOf(seo_data.value.internal_links) =
              HrefsOf(SelectSeq(anchors_with_href(doc),
                                LAMBDA a : ResolvedNetloc(a.href) = urlparse(url).netloc))
        /\ HrefsOf(seo_data.value.external_links) =
              HrefsOf(SelectSeq(anchors_with_href(doc),
                                LAMBDA a : ResolvedNetloc(a.href) # urlparse(url).netloc))

-----------------------------------------------------------------------------
(* The scraper: simple_web_scraper, main.py 228-363 *)

\* the attributes an element is written with, in this order
AttrOrder ==
    <<"name", "property", "content", "rel", "type", "href", "src", "alt", "title",
      "width", "height", "loading", "decoding", "target", "style", "charset", "lang">>

VoidTags == {"img", "meta", "link"}

ToChars(name) == [i \in 1..Len(name) |-> SubSeq(name, i, i)]

RECURSIVE attrs_text(_, _)
attrs_text(e, i) ==
    IF i > Len(AttrOrder) THEN <<>>
    ELSE IF AttrOrder[i] \notin DOMAIN e THEN attrs_text(e, i + 1)
    ELSE <<" ">> \o ToChars(AttrOrder[i]) \o <<"=", "\"">>
         \o (IF AttrOrder[i] = "rel" THEN JoinSpace(e.rel) ELSE e[AttrOrder[i]])
         \o <<"\"">> \o attrs_text(e, i + 1)

element_text(e) ==
    <<"<">> \o ToChars(e.tag) \o attrs_text(e, 1) \o <<">">>
    \o (IF e.tag \in VoidTags THEN <<>>
        ELSE Get(e, "string", Get(e, "text", <<>>)) \o <<"<", "/">> \o ToChars(e.tag) \o <<">">>)

\* response.text: the markup that BeautifulSoup parses into the document d
RECURSIVE response_text(_)
response_text(d) ==
    IF d = <<>> THEN <<>> ELSE element_text(Head(d)) \o response_text(Tail(d))

\* main.py 252: soup.title is the first title element, .string its only text child
page_title(d) ==
    IF find_all(d, "title") # <<>> THEN Get(find_all(d, "title")[1], "string", None)
    ELSE <<"N", "o", " ", "t", "i", "t", "l", "e", " ", "f", "o", "u", "n", "d">>

\* main.py 258-281
css_content(d) ==
    LET styled == SelectSeq(d, LAMBDA e : "style" \in DOMAIN e)
        style_tags == SelectSeq(find_all(d, "style"), LAMBDA e : Get(e, "string", <<>>) # <<>>)
        sheets == SelectSeq(find_links(d, <<"s", "t", "y", "l", "e", "s", "h", "e", "e", "t">>), LAMBDA e : Get(e, "href", <<>>) # <<>>)
    IN  [inline_styles |-> [i \in 1..Len(styled) |-> styled[i].style],
         internal_stylesheets |-> [i \in 1..Len(style_tags) |-> style_tags[i].string],
         external_stylesheets |-> [i \in 1..Len(sheets) |-> sheets[i].href]]

\* main.py 284-300
js_content(d) ==
    LET with_text == SelectSeq(find_all(d, "script"), LAMBDA e : Get(e, "string", <<>>) # <<>>)
        with_src == SelectSeq(find_all(d, "script"), LAMBDA e : "src" \in DOMAIN e)
    IN  [inline_scripts |-> [i \in 1..Len(with_text) |-> with_text[i].string],
         external_scripts |-> [i \in 1..Len(with_src) |-> with_src[i].src]]

\* main.py 303-306
links(d) == [i \in 1..Len(anchors_with_href(d)) |-> anchors_with_href(d)[i].href]

\* main.py 314-337: the seo_metadata used when extract_seo_metadata raises
fallback_seo_metadata ==
    [meta_tags |-> <<>>, open_graph |-> <<>>, twitter_cards |-> <<>>,
     structured_data |-> <<>>, headings |-> <<>>, images |-> <<>>,
     internal_links |-> <<>>, external_links |-> <<>>,
     canonical_url |-> None, robots_directive |-> None, language |-> None,
     charset |-> None, viewport |-> None, favicon |-> None, sitemap |-> None,
     rss_feeds |-> <<>>, social_links |-> <<>>, analytics |-> <<>>,
     word_count |-> 0, keyword_density |-> <<>>,
     page_speed_indicators |-> <<>>, detailed_analytics |-> <<>>]

FetchOutcomes == {"ok", "Timeout", "ConnectionError", "HTTPError"}

\* main.py 311-337, for the outcome of extract_seo_metadata: the metadata, or
\* the fallback when the extraction raised
seo_metadata_or_fallback(extracted) ==
    IF HasRaised(extracted) THEN fallback_seo_metadata ELSE extracted.value

\* main.py 228-363: what simple_web_scraper returns for url u when the request
\* ends with outcome fetched and the response parses into the document d
simple_web_scraper(u, fetched, d) ==
    IF fetched # "ok" THEN NoneDict
    ELSE [title |-> page_title(d),
          html_content |-> response_text(d),
          css_content |-> css_content(d),
          js_content |-> js_content(d),
          links |-> links(d),
          seo_metadata |-> seo_metadata_or_fallback(extract_seo_metadata(d, u))]

-----------------------------------------------------------------------------
(* The analyzer: analyze_scraped_content and its helpers, main.py 625-883 *)

\* a Python float that is the quotient of two integers, kept exact
Ratio(n, d) == [num |-> n, den |-> d]

\* bool(x) for a str, a list, a dict or None
Truthy(x) == x # <<>> /\ x # None

\* str.split(): the maximal runs of characters that are not whitespace
RECURSIVE split(_)
split(s) ==
    IF s = <<>> THEN <<>>
    ELSE IF s[1] \in Whitespace THEN split(Tail(s))
    ELSE LET stop == FindAny(s, Whitespace)
         IN  IF stop = 0 THEN <<s>>
             ELSE <<SubSeq(s, 1, stop - 1)>> \o split(SubSeq(s, stop, Len(s)))

ContainsAny(s, subs) == \E sub \in subs : Contains(s, sub)

\* main.py 647-656; len(None) raises TypeError
content_overview(sd) ==
    LET html_content == Get(sd, "html_content", <<>>)
    IN  [total_characters |-> Len(html_content),
         total_words |-> Len(split(html_content)),
         content_size_mb |-> Ratio(Len(html_content), 1024 * 1024),
         title |-> Get(sd, "title", <<"N", "o", " ", "t", "i", "t", "l", "e">>),
         has_title |-> Truthy(Get(sd, "title", None)),
         title_length |-> Len(Get(sd, "title", <<>>)),
         title_optimal |-> 50 <= Len(Get(sd, "title", <<>>)) /\ Len(Get(sd, "title", <<>>)) <= 60]

\* main.py 659-671
seo_analysis(seo) ==
    [meta_tags_count |-> Cardinality(DOMAIN Get(seo, "meta_tags", <<>>)),
     open_graph_tags |-> Cardinality(DOMAIN Get(seo, "open_graph", <<>>)),
     twitter_cards |-> Cardinality(DOMAIN Get(seo, "twitter_cards", <<>>)),
     structured_data_blocks |-> Len(Get(seo, "structured_data", <<>>)),
     canonical_url |-> Truthy(Get(seo, "canonical_url", None)),
     robots_directive |-> Truthy(Get(seo, "robots_directive", None)),
     favicon |-> Truthy(Get(seo, "favicon", None)),
     sitemap |-> Truthy(Get(seo, "sitemap", None)),
     word_count |-> Get(seo, "word_count", 0),
     content_richness |-> IF Get(seo, "word_count", 0) > 1000 THEN "High"
                          ELSE IF Get(seo, "word_count", 0) > 300 THEN "Medium"
                          ELSE "Low"]

\* main.py 674-686
technical_analysis(sd) ==
    LET css_data == Get(sd, "css_content", <<>>)
        js_data == Get(sd, "js_content", <<>>)
        n(data, k) == Len(Get(data, k, <<>>))
    IN  [inline_styles |-> n(css_data, "inline_styles"),
         internal_stylesheets |-> n(css_data, "internal_stylesheets"),
         external_stylesheets |-> n(css_data, "external_stylesheets"),
         inline_scripts |-> n(js_data, "inline_scripts"),
         external_scripts |-> n(js_data, "external_scripts"),
         total_scripts |-> n(js_data, "inline_scripts") + n(js_data, "external_scripts"),
         total_styles |-> n(css_data, "inline_styles") + n(css_data, "internal_stylesheets")
                          + n(css_data, "external_stylesheets"),
         uses_external_resources |-> n(css_data, "external_stylesheets") > 0
                                     \/ n(js_data, "external_scripts") > 0,
         has_inline_code |-> n(css_data, "inline_styles") > 0
                             \/ n(js_data, "inline_scripts") > 0]

\* len(headings.get(level, []))
heading_count(hs, level) == Len(Get(hs, level, <<>>))

\* main.py 690: sum(len(h) for h in headings.values())
RECURSIVE total_headings_of(_, _)
total_headings_of(hs, keys) ==
    IF keys = {} THEN 0
    ELSE LET k == CHOOSE x \in keys : TRUE
         IN  Len(hs[k]) + total_headings_of(hs, keys \ {k})

\* the rules with the H2 rule tried before the rule on the total
content_type_article_first(hs, total_headings) ==
    IF total_headings = 0 THEN "Simple Page"
    ELSE IF heading_count(hs, "h1") = 1 /\ total_headings <= 5 THEN "Landing Page"
    ELSE IF heading_count(hs, "h2") > 3 THEN "Article/Blog Post"
    ELSE IF total_headings > 10 THEN "Content-Rich Page"
    ELSE IF heading_count(hs, "h3") > 5 THEN "Product/Service Page"
    ELSE "Unknown"

\* main.py 700-710
content_type(hs, total_headings) ==
    IF total_headings = 0 THEN "Simple Page"
    ELSE IF heading_count(hs, "h1") = 1 /\ total_headings <= 5 THEN "Landing Page"
    ELSE IF total_headings > 10 THEN "Content-Rich Page"
    ELSE IF heading_count(hs, "h2") > 3 THEN "Article/Blog Post"
    ELSE IF heading_count(hs, "h3") > 5 THEN "Product/Service Page"
    ELSE "Unknown"

\* main.py 693-697: only the levels that occur, keyed H1..H6
heading_structure(hs) ==
    LET upper == [h1 |-> "H1", h2 |-> "H2", h3 |-> "H3", h4 |-> "H4", h5 |-> "H5", h6 |-> "H6"]
        present == {k \in DOMAIN upper : heading_count(hs, k) > 0}
    IN  [K \in {upper[k] : k \in present} |->
            heading_count(hs, CHOOSE k \in present : upper[k] = K)]

\* main.py 689-721 with the hierarchy optimal for one or more H1
content_categorization_any_h1(seo) ==
    LET hs == Get(seo, "headings", <<>>)
        total_headings == total_headings_of(hs, DOMAIN hs)
    IN  [content_type |-> content_type(hs, total_headings),
         heading_structure |-> heading_structure(hs),
         total_headings |-> total_headings,
         has_h1 |-> heading_count(hs, "h1") > 0,
         has_h2 |-> heading_count(hs, "h2") > 0,
         has_h3 |-> heading_count(hs, "h3") > 0,
         heading_hierarchy_optimal |-> heading_count(hs, "h1") >= 1 /\ heading_count(hs, "h2") > 0,
         content_depth |-> IF total_headings > 15 THEN "Deep"
                           ELSE IF total_headings > 5 THEN "Medium"
                           ELSE "Shallow"]

\* main.py 689-721
content_categorization(seo) ==
    LET hs == Get(seo, "headings", <<>>)
        total_headings == total_headings_of(hs, DOMAIN hs)
    IN  [content_type |-> content_type(hs, total_headings),
         heading_structure |-> heading_structure(hs),
         total_headings |-> total_headings,
         has_h1 |-> heading_count(hs, "h1") > 0,
         has_h2 |-> heading_count(hs, "h2") > 0,
         has_h3 |-> heading_count(hs, "h3") > 0,
         heading_hierarchy_optimal |-> heading_count(hs, "h1") = 1 /\ heading_count(hs, "h2") > 0,
         content_depth |-> IF total_headings > 15 THEN "Deep"
                           ELSE IF total_headings > 5 THEN "Medium"
                           ELSE "Shallow"]

\* main.py 742-751: the category of one link
link_category(link, external_links) ==
    LET text == Lower(Get(link, "text", <<>>))
        href == Lower(Get(link, "href", <<>>))
    IN  IF ContainsAny(text, {<<"h", "o", "m", "e">>, <<"m", "e", "n", "u">>, <<"a", "b", "o", "u", "t">>, <<"c", "o", "n", "t", "a", "c", "t">>, <<"s", "e", "r", "v", "i", "c", "e", "s">>})
            THEN "navigation"
        ELSE IF ContainsAny(text, {<<"r", "e", "a", "d", " ", "m", "o", "r", "e">>, <<"l", "e", "a", "r", "n", " ", "m", "o", "r", "e">>, <<"c", "l", "i", "c", "k", " ", "h", "e", "r", "e">>, <<"v", "i", "e", "w">>})
            THEN "calls_to_action"
        ELSE IF ContainsAny(href, {<<"f", "a", "c", "e", "b", "o", "o", "k">>, <<"t", "w", "i", "t", "t", "e", "r">>, <<"i", "n", "s", "t", "a", "g", "r", "a", "m">>, <<"l", "i", "n", "k", "e", "d", "i", "n">>, <<"y", "o", "u", "t", "u", "b", "e">>})
            THEN "social"
        ELSE IF \E i \in 1..Len(external_links) : external_links[i] = link
            THEN "external_references"
        ELSE "content"

LinkCategories == {"navigation", "content", "social", "external_references", "calls_to_action"}

\* true division: a / b raises ZeroDivisionError when b is 0
Div(a, b) == Ratio(a, b)

DividesByZero(r) == r.den = 0

\* main.py 724-766 with internal_ratio and external_ratio taken from each other's list
link_analysis_ratios_swapped(seo) ==
    LET internal_links == Get(seo, "internal_links", <<>>)
        external_links == Get(seo, "external_links", <<>>)
        social_links == Get(seo, "social_links", <<>>)
        all == internal_links \o external_links
        total == Len(internal_links) + Len(external_links)
    IN  [total_links |-> total,
         internal_links |-> Len(internal_links),
         external_links |-> Len(external_links),
         social_links |-> Len(social_links),
         link_categories |->
             [c \in LinkCategories |->
                 Len(SelectSeq(all, LAMBDA link : link_category(link, external_links) = c))],
         link_distribution |->
             [internal_ratio |-> Div(Len(external_links), Max(total, 1)),
              external_ratio |-> Div(Len(internal_links), Max(total, 1)),
              social_ratio |-> Div(Len(social_links), Max(total, 1))],
         has_social_presence |-> social_links # <<>>,
         link_quality |-> IF Len(internal_links) > Len(external_links) THEN "Good"
                          ELSE "Needs Improvement"]

\* main.py 724-766
link_analysis(seo) ==
    LET internal_links == Get(seo, "internal_links", <<>>)
        external_links == Get(seo, "external_links", <<>>)
        social_links == Get(seo, "social_links", <<>>)
        all == internal_links \o external_links
        total == Len(internal_links) + Len(external_links)
    IN  [total_links |-> total,
         internal_links |-> Len(internal_links),
         external_links |-> Len(external_links),
         social_links |-> Len(social_links),
         link_categories |->
             [c \in LinkCategories |->
                 Len(SelectSeq(all, LAMBDA link : link_category(link, external_links) = c))],
         link_distribution |->
             [internal_ratio |-> Div(Len(internal_links), Max(total, 1)),
              external_ratio |-> Div(Len(external_links), Max(total, 1)),
              social_ratio |-> Div(Len(social_links), Max(total, 1))],
         has_social_presence |-> social_links # <<>>,
         link_quality |-> IF Len(internal_links) > Len(external_links) THEN "Good"
                          ELSE "Needs Improvement"]

\* main.py 777, with the division carried out whether or not there are images
alt_text_coverage_unguarded(images_with_alt, total) == Div(images_with_alt * 100, total)

\* the coverage taken as complete when there is no image
alt_text_coverage_full_without_images(images_with_alt, total) ==
    IF total # 0 THEN Div(images_with_alt * 100, total) ELSE Div(100, 1)

\* main.py 777: (images_with_alt / len(images) * 100) if images else 0
alt_text_coverage(images_with_alt, total) ==
    IF total # 0 THEN Div(images_with_alt * 100, total) ELSE Div(0, 1)

\* main.py 769-782
media_analysis(seo) ==
    LET imgs == Get(seo, "images", <<>>)
        images_with_alt == Len(SelectSeq(imgs, LAMBDA img : Truthy(Get(img, "alt", None))))
    IN  [total_images |-> Len(imgs),
         images_with_alt |-> images_with_alt,
         images_without_alt |-> Len(imgs) - images_with_alt,
         alt_text_coverage |-> alt_text_coverage(images_with_alt, Len(imgs)),
         lazy_loading_images |->
             Len(SelectSeq(imgs, LAMBDA img : Get(img, "loading", None) = <<"l", "a", "z", "y">>)),
         responsive_images |->
             Len(SelectSeq(imgs, LAMBDA img : Truthy(Get(img, "width", None))
                                              /\ Truthy(Get(img, "height", None)))),
         media_richness |-> IF Len(imgs) > 10 THEN "High"
                            ELSE IF Len(imgs) > 3 THEN "Medium" ELSE "Low",
         seo_optimized_images |-> IF Len(imgs) # 0 THEN Div(images_with_alt, Len(imgs))
                                  ELSE Div(0, 1)]

\* the list [message] if condition else []
When(condition, message) == IF condition THEN <<message>> ELSE <<>>

\* main.py 821-843
identify_optimization_opportunities(ind, seo) ==
    When(Get(ind, "total_scripts", 0) > 15, "Consider reducing the number of scripts")
    \o When(Get(ind, "inline_styles", 0) > 30, "Move inline styles to external stylesheets")
    \o When(Get(ind, "images_without_alt", 0) > 0, "Add alt text to all images for better SEO")
    \o When(Get(seo, "word_count", 0) < 300, "Consider adding more content for better SEO")
    \o When(~Truthy(Get(seo, "canonical_url", None)),
            "Add canonical URL to prevent duplicate content issues")
    \o When(~Truthy(Get(seo, "sitemap", None)),
            "Consider adding a sitemap for better search engine indexing")

\* main.py 785-794
performance_insights(seo) ==
    LET ind == Get(seo, "page_speed_indicators", <<>>)
    IN  [total_scripts |-> Get(ind, "total_scripts", 0),
         total_stylesheets |-> Get(ind, "total_stylesheets", 0),
         inline_styles |-> Get(ind, "inline_styles", 0),
         total_images |-> Get(ind, "total_images", 0),
         images_without_alt |-> Get(ind, "images_without_alt", 0),
         performance_score |-> calculate_performance_score(ind),
         optimization_opportunities |-> identify_optimization_opportunities(ind, seo)]

\* main.py 845-883 as an if/elif chain: only the first rule that holds fires
generate_recommendations_first_match(a) ==
    IF a.seo_analysis.word_count < 300
    THEN <<"Add more content - aim for at least 300 words for better SEO">>
    ELSE IF ~a.seo_analysis.canonical_url
    THEN <<"Add canonical URL to prevent duplicate content issues">>
    ELSE IF a.media_analysis.alt_text_coverage.num < 80 * a.media_analysis.alt_text_coverage.den
    THEN <<"Improve image alt text coverage - aim for 100%">>
    ELSE IF ~a.seo_analysis.favicon
    THEN <<"Add a favicon for better brand recognition">>
    ELSE IF a.performance_insights.total_scripts > 15
    THEN <<"Reduce number of scripts to improve page load speed">>
    ELSE IF a.performance_insights.inline_styles > 30
    THEN <<"Move inline styles to external stylesheets">>
    ELSE IF ~a.content_categorization.heading_hierarchy_optimal
    THEN <<"Optimize heading hierarchy - use one H1 and proper H2-H6 structure">>
    ELSE IF 2 * a.link_analysis.link_distribution.external_ratio.num
               > a.link_analysis.link_distribution.external_ratio.den
    THEN <<"Balance internal vs external links - prioritize internal linking">>
    ELSE IF a.seo_analysis.content_richness = "Low"
    THEN <<"Enhance content depth with more detailed information">>
    ELSE IF ~a.link_analysis.has_social_presence
    THEN <<"Add social media links for better engagement">>
    ELSE <<>>

\* main.py 845-883 with the content depth message left out when the content
\* length message is already there
generate_recommendations_deduplicated(a) ==
    When(a.seo_analysis.word_count < 300,
         "Add more content - aim for at least 300 words for better SEO")
    \o When(~a.seo_analysis.canonical_url,
            "Add canonical URL to prevent duplicate content issues")
    \o When(a.media_analysis.alt_text_coverage.num < 80 * a.media_analysis.alt_text_coverage.den,
            "Improve image alt text coverage - aim for 100%")
    \o When(~a.seo_analysis.favicon, "Add a favicon for better brand recognition")
    \o When(a.performance_insights.total_scripts > 15,
            "Reduce number of scripts to improve page load speed")
    \o When(a.performance_insights.inline_styles > 30,
            "Move inline styles to external stylesheets")
    \o When(~a.content_categorization.heading_hierarchy_optimal,
            "Optimize heading hierarchy - use one H1 and proper H2-H6 structure")
    \o When(2 * a.link_analysis.link_distribution.external_ratio.num
                > a.link_analysis.link_distribution.external_ratio.den,
            "Balance internal vs external links - prioritize internal linking")
    \o When(a.seo_analysis.content_richness = "Low" /\ ~(a.seo_analysis.word_count < 300),
            "Enhance content depth with more detailed information")
    \o When(~a.link_analysis.has_social_presence,
            "Add social media links for better engagement")

\* main.py 845-883; the messages without their leading pictograms
generate_recommendations(a) ==
    When(a.seo_analysis.word_count < 300,
         "Add more content - aim for at least 300 words for better SEO")
    \o When(~a.seo_analysis.canonical_url,
            "Add canonical URL to prevent duplicate content issues")
    \o When(a.media_analysis.alt_text_coverage.num < 80 * a.media_analysis.alt_text_coverage.den,
            "Improve image alt text coverage - aim for 100%")
    \o When(~a.seo_analysis.favicon, "Add a favicon for better brand recognition")
    \o When(a.performance_insights.total_scripts > 15,
            "Reduce number of scripts to improve page load speed")
    \o When(a.performance_insights.inline_styles > 30,
            "Move inline styles to external stylesheets")
    \o When(~a.content_categorization.heading_hierarchy_optimal,
            "Optimize heading hierarchy - use one H1 and proper H2-H6 structure")
    \o When(2 * a.link_analysis.link_distribution.external_ratio.num
                > a.link_analysis.link_distribution.external_ratio.den,
            "Balance internal vs external links - prioritize internal linking")
    \o When(a.seo_analysis.content_richness = "Low",
            "Enhance content depth with more detailed information")
    \o When(~a.link_analysis.has_social_presence,
            "Add social media links for better engagement")

\* main.py 625-799: the analysis dict, or the exception raised on the way
analyze_scraped_content(sd) ==
    LET seo == Get(sd, "seo_metadata", <<>>)
        sections ==
            [content_overview |-> content_overview(sd),
             seo_analysis |-> seo_analysis(seo),
             technical_analysis |-> technical_analysis(sd),
             content_categorization |-> content_categorization(seo),
             link_analysis |-> link_analysis(seo),
             media_analysis |-> media_analysis(seo),
             performance_insights |-> performance_insights(seo)]
    IN  IF Get(sd, "title", <<>>) = None THEN Raised("TypeError")
        ELSE IF DividesByZero(sections.media_analysis.alt_text_coverage)
            THEN Raised("ZeroDivisionError")
        ELSE Returned([k \in DOMAIN sections \cup {"recommendations"} |->
                          IF k = "recommendations" THEN generate_recommendations(sections)
                          ELSE sections[k]])

\* the analyzer moving the links into its categories instead of copying
\* the references
scraped_after_analysis_links_moved(sd) ==
    [sd EXCEPT !.seo_metadata.internal_links = <<>>, !.seo_metadata.external_links = <<>>]

\* main.py 625-799: the scraped-data object after the call.  The function
\* reads it with get and len and appends its link dicts to lists of its own
\* (main.py 742-751); it assigns to no key of it and calls no mutating
\* method on it, on its seo_metadata or on their lists
scraped_after_analysis(sd) == sd

-----------------------------------------------------------------------------
(* The report composer: save_content_to_files, main.py 365-623 *)

DigitChars == <<"0", "1", "2", "3", "4", "5", "6", "7", "8", "9">>

\* str(n) for an integer n >= 0
RECURSIVE Str(_)
Str(n) == IF n < 10 THEN <<DigitChars[n + 1]>> ELSE Str(n \div 10) \o <<DigitChars[(n % 10) + 1]>>

\* what an f-string puts for a str value or None
Shown(v) == IF v = None THEN <<"N", "o", "n", "e">> ELSE v

\* f"{n:,}"
RECURSIVE FormatThousands(_)
FormatThousands(n) ==
    IF n < 1000 THEN Str(n)
    ELSE FormatThousands(n \div 1000) \o <<",">>
         \o Str((n % 1000) \div 100) \o Str((n % 100) \div 10) \o Str(n % 10)

\* f"{x:.1f}" for x = r.num / r.den >= 0: one decimal, ties to the even digit
FormatOneDecimal(r) ==
    LET q == (10 * r.num) \div r.den
        rem == (10 * r.num) % r.den
        tenths == IF 2 * rem > r.den \/ (2 * rem = r.den /\ q % 2 = 1) THEN q + 1 ELSE q
    IN  Str(tenths \div 10) \o <<".">> \o Str(tenths % 10)

\* str.replace(old, new)
RECURSIVE Replace(_, _, _)
Replace(s, old, new) ==
    IF Len(s) < Len(old) THEN s
    ELSE IF SubSeq(s, 1, Len(old)) = old
        THEN new \o Replace(SubSeq(s, Len(old) + 1, Len(s)), old, new)
    ELSE <<s[1]>> \o Replace(Tail(s), old, new)

\* str.lstrip(c)
RECURSIVE LStrip(_, _)
LStrip(s, c) == IF s # <<>> /\ s[1] = c THEN LStrip(Tail(s), c) ELSE s

\* the readings datetime.now() can give: each a date and a time of day
ClockReadings ==
    {[date |-> <<<<"2", "0", "2", "6">>, <<"0", "1">>, <<"0", "1">>>>, time |-> <<<<"1", "2">>, <<"0", "0">>, <<"0", "0">>>>],
     [date |-> <<<<"2", "0", "2", "6">>, <<"0", "1">>, <<"0", "1">>>>, time |-> <<<<"1", "2">>, <<"0", "0">>, <<"0", "1">>>>]}

\* now.strftime("%Y%m%d_%H%M%S")
strftime_compact(now) ==
    now.date[1] \o now.date[2] \o now.date[3] \o <<"_">> \o now.time[1] \o now.time[2] \o now.time[3]

\* now.strftime('%Y-%m-%d %H:%M:%S')
strftime_readable(now) ==
    now.date[1] \o <<"-">> \o now.date[2] \o <<"-">> \o now.date[3] \o <<" ">>
    \o now.time[1] \o <<":">> \o now.time[2] \o <<":">> \o now.time[3]

\* now.isoformat(), for a reading on a whole second
isoformat(now) ==
    now.date[1] \o <<"-">> \o now.date[2] \o <<"-">> \o now.date[3] \o <<"T">>
    \o now.time[1] \o <<":">> \o now.time[2] \o <<":">> \o now.time[3]

\* c * n
Rule(c, n) == [i \in 1..n |-> c]

\* main.py 376
safe_domain(netloc) == Replace(Replace(netloc, <<"w", "w", "w", ".">>, <<>>), <<".">>, <<"_">>)

\* main.py 377-381, for the path with its separators replaced
safe_path(replaced) ==
    IF replaced = <<>> \/ replaced = <<"_">> THEN <<"h", "o", "m", "e">> ELSE LStrip(replaced, "_")

\* main.py 365-386
get_safe_filename(u, now) ==
    LET Name(parsed) ==
            safe_domain(parsed.netloc) \o <<"_">>
            \o safe_path(Replace(Replace(parsed.path, <<"/">>, <<"_">>), <<"\\">>, <<"_">>))
            \o <<"_">> \o strftime_compact(now)
    IN  Name(urlparse(u))

\* the lines written for one numbered list: an empty line, a heading line, the item
RECURSIVE numbered_blocks(_, _, _, _)
numbered_blocks(items, i, before, after) ==
    IF i > Len(items) THEN <<>>
    ELSE <<<<>>, before \o Str(i) \o after, items[i]>>
         \o numbered_blocks(items, i + 1, before, after)

\* the lines written for one numbered list of references
numbered_lines(items, before, after) ==
    [i \in 1..Len(items) |-> before \o Str(i) \o <<".", " ">> \o items[i] \o after]

\* main.py 422-438: styles.css, line by line
css_file(sd) ==
    <<<<"/", "*", " ", "=", "=", "=", " ", "I", "N", "L", "I", "N", "E", " ", "S", "T", "Y", "L", "E", "S", " ", "=", "=", "=", " ", "*", "/">>>>
    \o numbered_blocks(sd.css_content.inline_styles, 1, <<"/", "*", " ", "-", "-", "-", " ", "I", "n", "l", "i", "n", "e", " ", "S", "t", "y", "l", "e", " ">>, <<" ", "-", "-", "-", " ", "*", "/">>)
    \o <<<<>>, <<>>, <<"/", "*", " ", "=", "=", "=", " ", "I", "N", "T", "E", "R", "N", "A", "L", " ", "S", "T", "Y", "L", "E", "S", "H", "E", "E", "T", "S", " ", "=", "=", "=", " ", "*", "/">>>>
    \o numbered_blocks(sd.css_content.internal_stylesheets, 1,
                       <<"/", "*", " ", "-", "-", "-", " ", "I", "n", "t", "e", "r", "n", "a", "l", " ", "S", "t", "y", "l", "e", "s", "h", "e", "e", "t", " ">>, <<" ", "-", "-", "-", " ", "*", "/">>)
    \o <<<<>>, <<>>, <<"/", "*", " ", "=", "=", "=", " ", "E", "X", "T", "E", "R", "N", "A", "L", " ", "S", "T", "Y", "L", "E", "S", "H", "E", "E", "T", "S", " ", "=", "=", "=", " ", "*", "/">>>>
    \o numbered_lines(sd.css_content.external_stylesheets, <<"/", "*", " ">>, <<" ", "*", "/">>)

\* main.py 443-453: scripts.js, line by line
js_file(sd) ==
    <<<<"/", "/", " ", "=", "=", "=", " ", "I", "N", "L", "I", "N", "E", " ", "S", "C", "R", "I", "P", "T", "S", " ", "=", "=", "=">>>>
    \o numbered_blocks(sd.js_content.inline_scripts, 1, <<"/", "/", " ", "-", "-", "-", " ", "I", "n", "l", "i", "n", "e", " ", "S", "c", "r", "i", "p", "t", " ">>, <<" ", "-", "-", "-">>)
    \o <<<<>>, <<>>, <<"/", "/", " ", "=", "=", "=", " ", "E", "X", "T", "E", "R", "N", "A", "L", " ", "S", "C", "R", "I", "P", "T", "S", " ", "=", "=", "=">>>>
    \o numbered_lines(sd.js_content.external_scripts, <<"/", "/", " ">>, <<>>)

\* main.py 458-464: links.txt, line by line
links_file(sd, u, now) ==
    <<<<"L", "i", "n", "k", "s", " ", "f", "o", "u", "n", "d", " ", "o", "n", ":", " ">> \o u, <<"S", "c", "r", "a", "p", "e", "d", " ", "o", "n", ":", " ">> \o strftime_readable(now), Rule("=", 50), <<>>>>
    \o numbered_lines(sd.links, <<>>, <<>>)

\* main.py 470-486: the dict that json.dump writes to metadata.json
metadata(sd, u, now) ==
    [original_url |-> u,
     scraped_at |-> isoformat(now),
     title |-> sd.title,
     stats |-> [links_count |-> Len(sd.links),
                inline_styles_count |-> Len(sd.css_content.inline_styles),
                internal_stylesheets_count |-> Len(sd.css_content.internal_stylesheets),
                external_stylesheets_count |-> Len(sd.css_content.external_stylesheets),
                inline_scripts_count |-> Len(sd.js_content.inline_scripts),
                external_scripts_count |-> Len(sd.js_content.external_scripts)],
     seo_metadata |-> Get(sd, "seo_metadata", <<>>)]

\* the lines "key: value" of a dict of strings, one per key
item_lines(d) == {k \o <<":", " ">> \o Shown(d[k]) : k \in DOMAIN d}

\* main.py 537-543: the lines of the heading levels that have headings
RECURSIVE heading_lines(_, _)
heading_lines(hs, level) ==
    IF level > 6 THEN <<>>
    ELSE LET found == Get(hs, HeadingTags[level], <<>>)
         IN  (IF found = <<>> THEN <<>>
              ELSE <<<<"H">> \o Str(level) \o <<" ", "H", "e", "a", "d", "i", "n", "g", "s", " ", "(">> \o Str(Len(found)) \o <<")", ":">>>>
                   \o numbered_lines(found, <<" ", " ">>, <<>>) \o <<<<>>>>)
             \o heading_lines(hs, level + 1)

\* main.py 493-509
report_basic(sd, u, now, seo) ==
    <<<<"S", "E", "O", " ", "A", "n", "a", "l", "y", "s", "i", "s", " ", "R", "e", "p", "o", "r", "t", " ", "f", "o", "r", ":", " ">> \o u,
      <<"G", "e", "n", "e", "r", "a", "t", "e", "d", " ", "o", "n", ":", " ">> \o strftime_readable(now),
      Rule("=", 80), <<>>,
      <<"B", "A", "S", "I", "C", " ", "S", "E", "O", " ", "I", "N", "F", "O", "R", "M", "A", "T", "I", "O", "N">>, Rule("-", 40),
      <<"T", "i", "t", "l", "e", ":", " ">> \o Shown(sd.title),
      <<"C", "a", "n", "o", "n", "i", "c", "a", "l", " ", "U", "R", "L", ":", " ">> \o Shown(Get(seo, "canonical_url", <<"N", "o", "t", " ", "f", "o", "u", "n", "d">>)),
      <<"R", "o", "b", "o", "t", "s", " ", "D", "i", "r", "e", "c", "t", "i", "v", "e", ":", " ">> \o Shown(Get(seo, "robots_directive", <<"N", "o", "t", " ", "f", "o", "u", "n", "d">>)),
      <<"L", "a", "n", "g", "u", "a", "g", "e", ":", " ">> \o Shown(Get(seo, "language", <<"N", "o", "t", " ", "s", "p", "e", "c", "i", "f", "i", "e", "d">>)),
      <<"C", "h", "a", "r", "s", "e", "t", ":", " ">> \o Shown(Get(seo, "charset", <<"N", "o", "t", " ", "s", "p", "e", "c", "i", "f", "i", "e", "d">>)),
      <<"V", "i", "e", "w", "p", "o", "r", "t", ":", " ">> \o Shown(Get(seo, "viewport", <<"N", "o", "t", " ", "s", "p", "e", "c", "i", "f", "i", "e", "d">>)),
      <<"F", "a", "v", "i", "c", "o", "n", ":", " ">> \o Shown(Get(seo, "favicon", <<"N", "o", "t", " ", "f", "o", "u", "n", "d">>)),
      <<"S", "i", "t", "e", "m", "a", "p", ":", " ">> \o Shown(Get(seo, "sitemap", <<"N", "o", "t", " ", "f", "o", "u", "n", "d">>)), <<>>>>

\* main.py 546-552: the lines written before the coverage is computed, and the
\* coverage itself
report_images(seo) ==
    LET imgs == Get(seo, "images", <<>>)
        images_without_alt == Len(SelectSeq(imgs, LAMBDA img : ~Truthy(img.alt)))
    IN  [written |-> <<<<"I", "M", "A", "G", "E", "S", " ", "A", "N", "A", "L", "Y", "S", "I", "S">>, Rule("-", 40),
                       <<"T", "o", "t", "a", "l", " ", "I", "m", "a", "g", "e", "s", ":", " ">> \o Str(Len(imgs)),
                       <<"I", "m", "a", "g", "e", "s", " ", "w", "i", "t", "h", "o", "u", "t", " ", "A", "l", "t", " ", "T", "e", "x", "t", ":", " ">> \o Str(images_without_alt)>>,
         coverage |-> Div((Len(imgs) - images_without_alt) * 100, Len(imgs))]

\* main.py 555-564
report_links(seo) ==
    LET internal_links == Get(seo, "internal_links", <<>>)
        external_links == Get(seo, "external_links", <<>>)
        social_links == Get(seo, "social_links", <<>>)
    IN  <<<<"L", "I", "N", "K", "S", " ", "A", "N", "A", "L", "Y", "S", "I", "S">>, Rule("-", 40),
          <<"I", "n", "t", "e", "r", "n", "a", "l", " ", "L", "i", "n", "k", "s", ":", " ">> \o Str(Len(internal_links)),
          <<"E", "x", "t", "e", "r", "n", "a", "l", " ", "L", "i", "n", "k", "s", ":", " ">> \o Str(Len(external_links)),
          <<"S", "o", "c", "i", "a", "l", " ", "M", "e", "d", "i", "a", " ", "L", "i", "n", "k", "s", ":", " ">> \o Str(Len(social_links)),
          <<"T", "o", "t", "a", "l", " ", "L", "i", "n", "k", "s", ":", " ">> \o Str(Len(internal_links) + Len(external_links)), <<>>>>

\* main.py 567-577
report_content(seo) ==
    LET keywords == Get(seo, "keyword_density", <<>>)
        shown == SubSeq(keywords, 1, IF Len(keywords) < 10 THEN Len(keywords) ELSE 10)
    IN  <<<<"C", "O", "N", "T", "E", "N", "T", " ", "A", "N", "A", "L", "Y", "S", "I", "S">>, Rule("-", 40),
          <<"W", "o", "r", "d", " ", "C", "o", "u", "n", "t", ":", " ">> \o FormatThousands(Get(seo, "word_count", 0))>>
        \o (IF keywords = <<>> THEN <<>>
            ELSE <<<<"T", "o", "p", " ", "K", "e", "y", "w", "o", "r", "d", "s", " ", "(", "b", "y", " ", "f", "r", "e", "q", "u", "e", "n", "c", "y", ")", ":">>>>
                 \o [i \in 1..Len(shown) |->
                        <<" ", " ">> \o Str(i) \o <<".", " ">> \o shown[i][1] \o <<":", " ">>
                        \o Str(shown[i][2]) \o <<" ", "t", "i", "m", "e", "s">>])
        \o <<<<>>>>

\* main.py 580-588
RECURSIVE analytic_lines(_)
analytic_lines(found) ==
    IF found = <<>> THEN <<>>
    ELSE <<<<"T", "y", "p", "e", ":", " ">> \o Head(found).type>>
         \o (IF Truthy(Head(found).src) THEN <<<<"S", "o", "u", "r", "c", "e", ":", " ">> \o Head(found).src>> ELSE <<>>)
         \o <<<<>>>> \o analytic_lines(Tail(found))

report_analytics(seo) ==
    IF Get(seo, "analytics", <<>>) = <<>> THEN <<>>
    ELSE <<<<"A", "N", "A", "L", "Y", "T", "I", "C", "S", " ", "&", " ", "T", "R", "A", "C", "K", "I", "N", "G">>, Rule("-", 40)>> \o analytic_lines(seo.analytics)

\* main.py 591-599
report_speed(seo) ==
    LET ind == Get(seo, "page_speed_indicators", <<>>)
    IN  <<<<"P", "A", "G", "E", " ", "S", "P", "E", "E", "D", " ", "I", "N", "D", "I", "C", "A", "T", "O", "R", "S">>, Rule("-", 40),
          <<"T", "o", "t", "a", "l", " ", "S", "c", "r", "i", "p", "t", "s", ":", " ">> \o Str(Get(ind, "total_scripts", 0)),
          <<"T", "o", "t", "a", "l", " ", "S", "t", "y", "l", "e", "s", "h", "e", "e", "t", "s", ":", " ">> \o Str(Get(ind, "total_stylesheets", 0)),
          <<"I", "n", "l", "i", "n", "e", " ", "S", "t", "y", "l", "e", "s", ":", " ">> \o Str(Get(ind, "inline_styles", 0)),
          <<"T", "o", "t", "a", "l", " ", "L", "i", "n", "k", "s", ":", " ">> \o Str(Get(ind, "total_links", 0)),
          <<"T", "o", "t", "a", "l", " ", "I", "m", "a", "g", "e", "s", ":", " ">> \o Str(Get(ind, "total_images", 0)),
          <<"I", "m", "a", "g", "e", "s", " ", "w", "i", "t", "h", "o", "u", "t", " ", "A", "l", "t", ":", " ">> \o Str(Get(ind, "images_without_alt", 0)), <<>>>>

\* main.py 602-609
report_structured_data(seo) ==
    LET blocks == Get(seo, "structured_data", <<>>)
    IN  (IF blocks = <<>> THEN <<>>
         ELSE <<<<"S", "T", "R", "U", "C", "T", "U", "R", "E", "D", " ", "D", "A", "T", "A">>, Rule("-", 40),
                <<"F", "o", "u", "n", "d", " ">> \o Str(Len(blocks)) \o <<" ", "s", "t", "r", "u", "c", "t", "u", "r", "e", "d", " ", "d", "a", "t", "a", " ", "b", "l", "o", "c", "k", "s">>>>
              \o [i \in 1..Len(blocks) |-> <<"B", "l", "o", "c", "k", " ">> \o Str(i) \o <<":", " ">> \o ToChars(blocks[i].type)])
        \o <<<<>>>>

\* main.py 612-619
RECURSIVE feed_lines(_)
feed_lines(feeds) ==
    IF feeds = <<>> THEN <<>>
    ELSE <<<<"T", "y", "p", "e", ":", " ">> \o Shown(Head(feeds).type), <<"T", "i", "t", "l", "e", ":", " ">> \o Shown(Head(feeds).title),
           <<"U", "R", "L", ":", " ">> \o Shown(Head(feeds).href), <<>>>> \o feed_lines(Tail(feeds))

report_feeds(seo) ==
    IF Get(seo, "rss_feeds", <<>>) = <<>> THEN <<>>
    ELSE <<<<"R", "S", "S", " ", "F", "E", "E", "D", "S">>, Rule("-", 40)>> \o feed_lines(seo.rss_feeds)

\* main.py 490-621: seo_report.txt by section, as far as it gets written; the
\* items of a dict section are a set of lines, the other sections are lines in order
seo_report(sd, u, now) ==
    LET seo == Get(sd, "seo_metadata", <<>>)
        img == report_images(seo)
        upto_images ==
            [basic |-> report_basic(sd, u, now, seo),
             meta_tags |-> item_lines(Get(seo, "meta_tags", <<>>)),
             open_graph |-> item_lines(Get(seo, "open_graph", <<>>)),
             twitter_cards |-> item_lines(Get(seo, "twitter_cards", <<>>)),
             headings |-> heading_lines(Get(seo, "headings", <<>>), 1),
             images |-> img.written]
        rest ==
            [links |-> report_links(seo),
             content |-> report_content(seo),
             analytics |-> report_analytics(seo),
             speed |-> report_speed(seo),
             structured_data |-> report_structured_data(seo),
             rss_feeds |-> report_feeds(seo)]
    IN  IF DividesByZero(img.coverage) THEN [complete |-> FALSE, sections |-> upto_images]
        ELSE [complete |-> TRUE,
              sections |->
                  [k \in DOMAIN upto_images \cup DOMAIN rest |->
                      IF k = "images"
                          THEN img.written \o <<<<"A", "l", "t", " ", "T", "e", "x", "t", " ", "C", "o", "v", "e", "r", "a", "g", "e", ":", " ">>
                                                 \o FormatOneDecimal(img.coverage) \o <<"%">>, <<>>>>
                      ELSE IF k \in DOMAIN rest THEN rest[k]
                      ELSE upto_images[k]]]

\* main.py 388-623: what save_content_to_files returns or raises, and the files
\* it has written by then.  clock holds the four readings of datetime.now()
save_content_to_files(sd, u, clock) ==
    IF sd = NoneDict \/ sd = <<>> THEN [outcome |-> Returned(None), written |-> <<>>]
    ELSE LET Saved(dir, report) ==
                 LET content == [index |-> sd.html_content,
                                 styles |-> css_file(sd),
                                 scripts |-> js_file(sd),
                                 links |-> links_file(sd, u, clock[2]),
                                 metadata |-> metadata(sd, u, clock[3]),
                                 seo_report |-> report]
                     path == [index |-> dir \o <<"/", "i", "n", "d", "e", "x", ".", "h", "t", "m", "l">>,
                              styles |-> dir \o <<"/", "s", "t", "y", "l", "e", "s", ".", "c", "s", "s">>,
                              scripts |-> dir \o <<"/", "s", "c", "r", "i", "p", "t", "s", ".", "j", "s">>,
                              links |-> dir \o <<"/", "l", "i", "n", "k", "s", ".", "t", "x", "t">>,
                              metadata |-> dir \o <<"/", "m", "e", "t", "a", "d", "a", "t", "a", ".", "j", "s", "o", "n">>,
                              seo_report |-> dir \o <<"/", "s", "e", "o", "_", "r", "e", "p", "o", "r", "t", ".", "t", "x", "t">>]
                 IN  [outcome |-> IF report.complete THEN Returned(dir)
                                  ELSE Raised("ZeroDivisionError"),
                      written |-> [p \in {path[k] : k \in DOMAIN path} |->
                                      content[CHOOSE k \in DOMAIN path : path[k] = p]]]
         IN  Saved(<<"s", "c", "r", "a", "p", "e", "d", "_", "s", "i", "t", "e", "s", "/">> \o get_safe_filename(u, clock[1]),
                   seo_report(sd, u, clock[4]))

\* the files after a write: written files replace those of the same path
Overlay(old, new) ==
    [p \in DOMAIN old \cup DOMAIN new |-> IF p \in DOMAIN new THEN new[p] ELSE old[p]]

-----------------------------------------------------------------------------
(* Spec: the program of main.py 1320-1377: scrape, then analyze, then save. *)

MaxElements == 2

TitleShop == [tag |-> "title", string |-> <<"S", "h", "o", "p">>]

\* <title></title>: an element without a text child
TitleEmpty == [tag |-> "title"]

HeadingOne == [tag |-> "h1", text |-> <<" ", "W", "e", "l", "c", "o", "m", "e", " ">>]

HeadingTwo == [tag |-> "h2", text |-> <<"O", "f", "f", "e", "r", "s">>]

ImageWithAlt == [tag |-> "img", src |-> <<"a", ".", "p", "n", "g">>, alt |-> <<"A", " ", "l", "o", "g", "o">>]

ImageEmptyAlt == [tag |-> "img", src |-> <<"b", ".", "p", "n", "g">>, alt |-> <<>>]

ImageNoAlt == [tag |-> "img", src |-> <<"c", ".", "p", "n", "g">>, width |-> <<"1", "0">>, height |-> <<"1", "0">>]

MetaDescription == [tag |-> "meta", name |-> <<"d", "e", "s", "c", "r", "i", "p", "t", "i", "o", "n">>, content |-> <<"A", " ", "s", "h", "o", "p">>]

LinkCanonical == [tag |-> "link", rel |-> <<<<"c", "a", "n", "o", "n", "i", "c", "a", "l">>>>, href |-> <<"h", "t", "t", "p", "s", ":", "/", "/", "a", ".", "i", "o", "/">>]

DivStyled == [tag |-> "div", style |-> <<"c", "o", "l", "o", "r", ":", "r", "e", "d">>, text |-> <<" ", "f", "r", "e", "s", "h", " ", "b", "r", "e", "a", "d", " ", "d", "a", "i", "l", "y", " ">>]

ElementCatalogue ==
    {TitleShop, TitleEmpty, HeadingOne, HeadingTwo, ImageWithAlt, ImageEmptyAlt, ImageNoAlt,
     MetaDescription, LinkCanonical, DivStyled, ScriptPlain, AnchorRootRelative,
     AnchorAbsoluteOtherHost, AnchorBadNetloc}

\* four successive readings of the clock
ClockRuns ==
    {c \in [1..4 -> ClockReadings] :
        \A i \in 1..3 : c[i] = c[i + 1] \/ c[i].time[3] = <<"0", "0">>}

Init ==
    /\ pc = "start"
    /\ url = SourceUrl
    /\ doc \in SeqsUpTo(ElementCatalogue, MaxElements)
    /\ scraped_data = NotCalled /\ analysis = NotCalled /\ site_dir = NotCalled
    /\ files = <<>>
    /\ seo_data = NotCalled
    /\ analytics_data = <<>>
    /\ KeywordIdle /\ ScoreIdle /\ ProjectIdle /\ ServiceIdle

\* main.py 1326
Scrape ==
    /\ pc = "start"
    /\ \E fetched \in FetchOutcomes :
          scraped_data' = Returned(simple_web_scraper(url, fetched, doc))
    /\ pc' = "scraped"
    /\ UNCHANGED <<url, doc, analysis, site_dir, files, seo_data, analytics_data,
                   keywordVars, scoreVars, projectVars, serviceVars>>

\* main.py 1328-1330; an exception ends the program
Analyze ==
    /\ pc = "scraped"
    /\ scraped_data.value # NoneDict
    /\ analysis' = analyze_scraped_content(scraped_data.value)
    /\ scraped_data' = Returned(scraped_after_analysis(scraped_data.value))
    /\ pc' = IF HasRaised(analysis') THEN "failed" ELSE "analyzed"
    /\ UNCHANGED <<url, doc, site_dir, files, seo_data, analytics_data,
                   keywordVars, scoreVars, projectVars, serviceVars>>

\* main.py 1341; an exception ends the program
Save ==
    /\ pc = "analyzed"
    /\ \E clock \in ClockRuns :
          LET saved == save_content_to_files(scraped_data.value, url, clock)
          IN  /\ site_dir' = saved.outcome
              /\ files' = Overlay(files, saved.written)
              /\ pc' = IF HasRaised(saved.outcome) THEN "failed" ELSE "saved"
    /\ UNCHANGED <<url, doc, scraped_data, analysis, seo_data, analytics_data,
                   keywordVars, scoreVars, projectVars, serviceVars>>

Next == Scrape \/ Analyze \/ Save

Spec == Init /\ [][Next]_vars

-----------------------------------------------------------------------------
(* Properties of the program *)

\* the scraped-data object, once simple_web_scraper has returned one
Scraped == pc # "start" /\ scraped_data.value # NoneDict

HeadingKeys == {HeadingTags[i] : i \in 1..6}

\* C2: every seo_metadata that simple_web_scraper returns, after a successful
\* extraction or after the fallback, has a headings map with exactly the six
\* keys h1..h6, each holding the heading texts of its level in document order.
C2_HeadingsSixKeys ==
    Scraped =>
        LET hs == scraped_data.value.seo_metadata.headings
        IN  /\ DOMAIN hs = HeadingKeys
            /\ HasReturned(extract_seo_metadata(doc, url)) =>
                  \A k \in HeadingKeys :
                      hs[k] = [i \in 1..Len(find_all(doc, k)) |->
                                  Strip(find_all(doc, k)[i].text)]

\* C7: when extract_seo_metadata raises, simple_web_scraper still returns a
\* scraped-data object, and its seo_metadata has every field and nested field
\* (heading keys, page_speed_indicators counts, analytics summary) that the
\* extraction of an empty document yields.
C7_FallbackComplete ==
    (pc # "start" /\ HasRaised(extract_seo_metadata(doc, url))) =>
        LET SameFields(got, want) ==
                /\ DOMAIN got = DOMAIN want
                /\ DOMAIN got.headings = DOMAIN want.headings
                /\ DOMAIN got.page_speed_indicators = DOMAIN want.page_speed_indicators
                /\ DOMAIN got.detailed_analytics = DOMAIN want.detailed_analytics
        IN  /\ scraped_data.value # NoneDict
            /\ SameFields(scraped_data.value.seo_metadata,
                          extract_seo_metadata(<<>>, url).value)

ReportPath == site_dir.value \o <<"/", "s", "e", "o", "_", "r", "e", "p", "o", "r", "t", ".", "t", "x", "t">>

\* C8: save_content_to_files completes and returns the output directory, with
\* the report written to its end, for every scraped-data object that
\* simple_web_scraper can return, a document without images and the fallback
\* seo_metadata included.
C8_SaveCompletes ==
    site_dir # NotCalled =>
        /\ HasReturned(site_dir)
        /\ site_dir.value # None
        /\ ReportPath \in DOMAIN files
        /\ files[ReportPath].complete

Sections ==
    {"content_overview", "seo_analysis", "technical_analysis", "content_categorization",
     "link_analysis", "media_analysis", "performance_insights", "recommendations"}

\* C9: analyze_scraped_content never raises and returns an analysis with all
\* eight sections for every scraped-data object, one whose title is None included.
C9_AnalyzeNeverRaises ==
    analysis # NotCalled => (HasReturned(analysis) /\ DOMAIN analysis.value = Sections)

\* the images of the analysed seo_metadata that have a non-empty alt text
ImagesWithAlt ==
    SelectSeq(scraped_data.value.seo_metadata.images, LAMBDA img : img.alt # <<>> /\ img.alt # None)

\* C10: alt_text_coverage is images_with_alt / total_images as a percentage
\* when there is an image and exactly 0 when there is none; a seo_metadata
\* without images yields total_images = 0, and no division by zero occurs.
C10_AltTextCoverage ==
    analysis # NotCalled =>
        /\ analysis # Raised("ZeroDivisionError")
        /\ HasReturned(analysis) =>
              LET media == analysis.value.media_analysis
                  total == Len(scraped_data.value.seo_metadata.images)
              IN  /\ media.total_images = total
                  /\ media.alt_text_coverage.den # 0
                  /\ total > 0 =>
                        media.alt_text_coverage.num * total
                            = 100 * Len(ImagesWithAlt) * media.alt_text_coverage.den
                  /\ total = 0 => media.alt_text_coverage.num = 0

\* an analysis of a document without img elements
C10_Witness ==
    /\ pc = "analyzed"
    /\ find_all(doc, "img") = <<>>
    /\ HasReturned(extract_seo_metadata(doc, url))
    /\ analysis.value.media_analysis.total_images = 0
    /\ analysis.value.media_analysis.alt_text_coverage.num = 0

-----------------------------------------------------------------------------
(* SpecAnalysis: analyze_scraped_content applied to the scraped-data        *)
(* objects of pages of varying size: their words, images, scripts, inline  *)
(* styles, headings and links are counted, not spelled out.                 *)

MaxLinks == 2

\* [x] * n
Repeat(x, n) == [i \in 1..n |-> x]

\* word counts on both sides of the thresholds of main.py 670 and 850
WordCounts == {250, 300, 1200}

\* script counts on both sides of the threshold of main.py 863
ScriptCounts == {15, 16}

\* inline style counts on both sides of the threshold of main.py 866
InlineStyleCounts == {30, 31}

\* numbers of internal and of external links: few of each, or 5 and 10
LinkCounts == ((0..MaxLinks) \X (0..MaxLinks)) \cup {<<5, 10>>}

\* numbers of h1 and of h2 headings
HeadingCounts == {<<0, 0>>, <<0, 3>>, <<1, 0>>, <<1, 1>>, <<2, 1>>}

\* the images of a page: none, four in five with alt text, three in four
ImageLists ==
    {<<>>,
     images(Repeat(ImageWithAlt, 4) \o <<ImageNoAlt>>),
     images(Repeat(ImageWithAlt, 3) \o <<ImageEmptyAlt>>)}

InternalLink == link_data(AnchorRootRelative, urljoin(SourceUrl, AnchorRootRelative.href).value)

ExternalLink == link_data(AnchorAbsoluteOtherHost, AnchorAbsoluteOtherHost.href)

SocialLink == link_data(AnchorSocial, AnchorSocial.href)

\* the external links of a page with n of them, one to a social network if social
ExternalLinks(n, social) ==
    IF social /\ n > 0 THEN Repeat(ExternalLink, n - 1) \o <<SocialLink>>
    ELSE Repeat(ExternalLink, n)

\* what extract_seo_metadata leaves in the fields analyze_scraped_content reads
PageSeoMetadata(words, canonical, favicon, imgs, scripts, styles, h1, h2, internal, external) ==
    [EmptySeoData EXCEPT
        !.word_count = words,
        !.canonical_url = canonical,
        !.favicon = favicon,
        !.images = imgs,
        !.headings = [k \in {HeadingTags[i] : i \in 1..6} |->
                         IF k = "h1" THEN Repeat(TitleShop.string, h1)
                         ELSE IF k = "h2" THEN Repeat(HeadingTwo.text, h2)
                         ELSE <<>>],
        !.internal_links = internal,
        !.external_links = external,
        !.social_links = SelectSeq(external, LAMBDA l : l = SocialLink),
        !.page_speed_indicators =
            [total_images |-> Len(imgs),
             images_without_alt |-> Len(SelectSeq(imgs, LAMBDA img : img.alt = <<>>)),
             total_scripts |-> scripts,
             total_stylesheets |-> 0,
             inline_styles |-> styles,
             total_links |-> Len(internal) + Len(external)]]

\* what simple_web_scraper returns for such a page
ScrapedPage(seo, scripts, styles) ==
    [title |-> TitleShop.string,
     html_content |-> response_text(<<TitleShop>>),
     css_content |-> [inline_styles |-> Repeat(DivStyled.style, styles),
                      internal_stylesheets |-> <<>>, external_stylesheets |-> <<>>],
     js_content |-> [inline_scripts |-> Repeat(ScriptPlain.string, scripts),
                     external_scripts |-> <<>>],
     links |-> HrefsOf(seo.internal_links \o seo.external_links),
     seo_metadata |-> seo]

ScrapedPages ==
    {ScrapedPage(PageSeoMetadata(words, canonical, favicon, imgs, scripts, styles,
                                 h[1], h[2], Repeat(InternalLink, n[1]),
                                 ExternalLinks(n[2], social)),
                 scripts, styles) :
        words \in WordCounts, canonical \in {None, LinkCanonical.href},
        favicon \in {None, <<"/", "f", "a", "v", "i", "c", "o", "n", ".", "i", "c", "o">>}, imgs \in ImageLists,
        scripts \in ScriptCounts, styles \in InlineStyleCounts,
        h \in HeadingCounts, n \in LinkCounts, social \in BOOLEAN}

InitAnalysis ==
    /\ pc = "scraped"
    /\ url = SourceUrl /\ doc = <<>>
    /\ scraped_data \in {Returned(sd) : sd \in ScrapedPages}
    /\ analysis = NotCalled /\ site_dir = NotCalled /\ files = <<>>
    /\ seo_data = NotCalled
    /\ analytics_data = <<>>
    /\ KeywordIdle /\ ScoreIdle /\ ProjectIdle /\ ServiceIdle

\* main.py 1330
AnalyzeScraped ==
    /\ pc = "scraped"
    /\ analysis' = analyze_scraped_content(scraped_data.value)
    /\ scraped_data' = Returned(scraped_after_analysis(scraped_data.value))
    /\ pc' = "analyzed"
    /\ UNCHANGED <<url, doc, site_dir, files, seo_data, analytics_data,
                   keywordVars, scoreVars, projectVars, serviceVars>>

NextAnalysis == AnalyzeScraped

SpecAnalysis == InitAnalysis /\ [][NextAnalysis]_vars

\* the analysis, once analyze_scraped_content has returned one
Analyzed == pc = "analyzed" /\ HasReturned(analysis)

\* the ten rules in their order: content length, canonical, alt text, favicon,
\* scripts, inline styles, heading hierarchy, link balance, content depth,
\* social presence
RuleMessages ==
    <<"Add more content - aim for at least 300 words for better SEO",
      "Add canonical URL to prevent duplicate content issues",
      "Improve image alt text coverage - aim for 100%",
      "Add a favicon for better brand recognition",
      "Reduce number of scripts to improve page load speed",
      "Move inline styles to external stylesheets",
      "Optimize heading hierarchy - use one H1 and proper H2-H6 structure",
      "Balance internal vs external links - prioritize internal linking",
      "Enhance content depth with more detailed information",
      "Add social media links for better engagement">>

\* whether the condition of rule i holds of the analysis a
RuleHolds(a, i) ==
    CASE i = 1 -> a.seo_analysis.word_count < 300
      [] i = 2 -> ~a.seo_analysis.canonical_url
      [] i = 3 -> a.media_analysis.alt_text_coverage.num
                     < 80 * a.media_analysis.alt_text_coverage.den
      [] i = 4 -> ~a.seo_analysis.favicon
      [] i = 5 -> a.performance_insights.total_scripts > 15
      [] i = 6 -> a.performance_insights.inline_styles > 30
      [] i = 7 -> ~a.content_categorization.heading_hierarchy_optimal
      [] i = 8 -> 2 * a.link_analysis.link_distribution.external_ratio.num
                     > a.link_analysis.link_distribution.external_ratio.den
      [] i = 9 -> a.seo_analysis.content_richness = "Low"
      [] i = 10 -> ~a.link_analysis.has_social_presence

\* the rules whose condition holds of the analysis a, in rule order
RulesHolding(a) == SelectSeq([i \in 1..10 |-> i], LAMBDA i : RuleHolds(a, i))

\* C11: the recommendations are the messages of exactly the rules whose
\* condition holds, in the fixed rule order, whichever other rules fire.
C11_RulesIndependent ==
    Analyzed =>
        analysis.value.recommendations =
            [k \in 1..Len(RulesHolding(analysis.value)) |->
                RuleMessages[RulesHolding(analysis.value)[k]]]

\* an analysis in which the scripts rule and the social rule both fire while
\* the content length rule between them and before them does not
C11_Witness ==
    /\ Analyzed
    /\ RuleHolds(analysis.value, 5) /\ RuleHolds(analysis.value, 10)
    /\ ~RuleHolds(analysis.value, 1) /\ ~RuleHolds(analysis.value, 9)
    /\ Len(analysis.value.recommendations) >= 2

\* whether the recommendations of the analysis a include the message of rule i
Recommends(a, i) ==
    \E k \in 1..Len(a.recommendations) : a.recommendations[k] = RuleMessages[i]

\* C12: whenever word_count is below 300, the recommendations hold both the
\* low word count message and the separate content depth message.
C12_BothContentMessages ==
    (Analyzed /\ scraped_data.value.seo_metadata.word_count < 300) =>
        /\ Recommends(analysis.value, 1)
        /\ Recommends(analysis.value, 9)
        /\ RuleMessages[1] # RuleMessages[9]

\* the analysis of a page of 250 words
C12_Witness ==
    /\ Analyzed
    /\ scraped_data.value.seo_metadata.word_count = 250
    /\ analysis.value.seo_analysis.content_richness = "Low"
    /\ Len(analysis.value.recommendations) >= 2

\* C13: the link balance message is present exactly when external links
\* strictly outnumber internal links; with no links or equal numbers it is absent.
C13_LinkBalance ==
    Analyzed =>
        (Recommends(analysis.value, 8)
            <=> Len(scraped_data.value.seo_metadata.external_links)
                    > Len(scraped_data.value.seo_metadata.internal_links))

\* the analysis of a page with 10 external and 5 internal links
C13_Witness ==
    /\ Analyzed
    /\ Len(scraped_data.value.seo_metadata.external_links) = 10
    /\ Len(scraped_data.value.seo_metadata.internal_links) = 5
    /\ analysis.value.link_analysis.link_distribution.external_ratio = Ratio(10, 15)
    /\ Recommends(analysis.value, 8)

\* C14: heading_hierarchy_optimal is true exactly when there is exactly one H1
\* and at least one H2; without an H1 it is false, content_type is not
\* 'Landing Page' and the heading hierarchy message is issued.
C14_HeadingHierarchy ==
    Analyzed =>
        LET hs == scraped_data.value.seo_metadata.headings
            cat == analysis.value.content_categorization
        IN  /\ cat.heading_hierarchy_optimal <=> (Len(hs.h1) = 1 /\ Len(hs.h2) >= 1)
            /\ Len(hs.h1) = 0 =>
                  /\ ~cat.heading_hierarchy_optimal
                  /\ cat.content_type # "Landing Page"
                  /\ Recommends(analysis.value, 7)

\* the analysis of a page with three H2 and no H1
C14_Witness ==
    /\ Analyzed
    /\ Len(scraped_data.value.seo_metadata.headings.h1) = 0
    /\ Len(scraped_data.value.seo_metadata.headings.h2) = 3
    /\ ~analysis.value.content_categorization.heading_hierarchy_optimal

\* G- followed by 10 uppercase alphanumerics
IsGA4Id(t) ==
    /\ Len(t) = 12 /\ t[1] = "G" /\ t[2] = "-"
    /\ \A j \in 3..12 : t[j] \in UpperLetters \cup Digits

\* where in the text s a GA4 id begins
GA4IdPositions(s) == {i \in 1..(Len(s) - 11) : IsGA4Id(SubSeq(s, i, i + 11))}

\* the GA4 ids that the text s hands to a gtag config call
GtagConfigIds(s) ==
    {SubSeq(s, i, i + 11) :
        i \in {j \in GA4IdPositions(s) :
                  /\ j > 15 /\ j + 12 <= Len(s)
                  /\ SubSeq(s, j - 15, j - 1) \in {<<"g", "t", "a", "g", "(", "'", "c", "o", "n", "f", "i", "g", "'", ",", "'">>, <<"g", "t", "a", "g", "(", "\"", "c", "o", "n", "f", "i", "g", "\"", ",", "\"">>}
                  /\ s[j + 12] \in Quotes}}

\* the document is one script, without src, whose text holds a gtag config
\* call with a GA4 id and no UA id
OneGtagConfigScript ==
    /\ Len(doc) = 1 /\ doc[1].tag = "script"
    /\ Get(doc[1], "src", <<>>) = <<>>
    /\ GtagConfigIds(Get(doc[1], "string", <<>>)) # {}
    /\ \A i \in 1..Len(doc[1].string) : UAEnds(doc[1].string, i) = {}

\* one google_analytics record of version GA4 without tracking id, and no
\* record in any other tool list
OneGA4Record ==
    /\ Len(analytics_data["google_analytics"]) = 1
    /\ analytics_data["google_analytics"][1].version = <<"G", "A", "4">>
    /\ analytics_data["google_analytics"][1].tracking_id = None
    /\ \A k \in ToolKeySet \ {"google_analytics"} : analytics_data[k] = <<>>

\* C15 as stated: such a script yields exactly one google_analytics record,
\* of version GA4, whose measurement_id is the id of the gtag config call and
\* whose tracking_id is None, and no record in any other tool list.
C15_GtagConfigId ==
    (pc = "fingerprinted" /\ OneGtagConfigScript) =>
        /\ OneGA4Record
        /\ analytics_data["google_analytics"][1].measurement_id
               \in GtagConfigIds(doc[1].string)

\* C15, amended: such a script yields exactly one google_analytics record, of
\* version GA4 and without tracking id, and no record in any other tool list;
\* its measurement_id is the first GA4 id of the text, whether or not that is
\* the id of the gtag config call.
C15_FirstGA4Id ==
    (pc = "fingerprinted" /\ OneGtagConfigScript) =>
        LET s == doc[1].string
            first == CHOOSE i \in GA4IdPositions(s) : \A j \in GA4IdPositions(s) : i <= j
        IN  /\ OneGA4Record
            /\ analytics_data["google_analytics"][1].measurement_id = SubSeq(s, first, first + 11)

\* the script gtag('config','G-ABCD123456') fingerprinted
C15_Witness ==
    /\ pc = "fingerprinted"
    /\ doc = <<ScriptGA4>>
    /\ OneGtagConfigScript
    /\ analytics_data["google_analytics"][1].measurement_id = <<"G", "-", "A", "B", "C", "D", "1", "2", "3", "4", "5", "6">>

-----------------------------------------------------------------------------
(* SpecStructuredData: extract_seo_metadata applied to documents with       *)
(* JSON-LD scripts.                                                         *)

MaxBlocks == 2

JsonLdShop == [tag |-> "script", type |-> <<"a", "p", "p", "l", "i", "c", "a", "t", "i", "o", "n", "/", "l", "d", "+", "j", "s", "o", "n">>, string |-> <<"{", "\"", "@", "t", "y", "p", "e", "\"", ":", " ", "\"", "S", "h", "o", "p", "\"", "}">>]

JsonLdList == [tag |-> "script", type |-> <<"a", "p", "p", "l", "i", "c", "a", "t", "i", "o", "n", "/", "l", "d", "+", "j", "s", "o", "n">>, string |-> <<"[", "1", ",", " ", "[", "t", "r", "u", "e", ",", " ", "n", "u", "l", "l", "]", "]">>]

\* a JSON-LD script cut off in the middle
JsonLdCutOff == [tag |-> "script", type |-> <<"a", "p", "p", "l", "i", "c", "a", "t", "i", "o", "n", "/", "l", "d", "+", "j", "s", "o", "n">>, string |-> <<"{", "\"", "@", "t", "y", "p", "e", "\"", ":", " ">>]

\* <script type="application/ld+json"></script>: no text child
JsonLdEmpty == [tag |-> "script", type |-> <<"a", "p", "p", "l", "i", "c", "a", "t", "i", "o", "n", "/", "l", "d", "+", "j", "s", "o", "n">>]

\* arrays opened deeper than the decoder can descend, and never closed
JsonLdDeep == [tag |-> "script", type |-> <<"a", "p", "p", "l", "i", "c", "a", "t", "i", "o", "n", "/", "l", "d", "+", "j", "s", "o", "n">>, string |-> Repeat("[", JsonDepth + 1)]

JsonLdCatalogue ==
    {JsonLdShop, JsonLdList, JsonLdCutOff, JsonLdEmpty, JsonLdDeep, ScriptGA4, HeadingOne,
     MetaDescription}

InitStructuredData ==
    /\ pc = "parsed"
    /\ url = SourceUrl
    /\ doc \in SeqsUpTo(JsonLdCatalogue, MaxBlocks)
    /\ seo_data = NotCalled
    /\ analytics_data = <<>>
    /\ scraped_data = NotCalled /\ analysis = NotCalled /\ site_dir = NotCalled
    /\ files = <<>>
    /\ KeywordIdle /\ ScoreIdle /\ ProjectIdle /\ ServiceIdle

NextStructuredData == ExtractSeoMetadata

SpecStructuredData == InitStructuredData /\ [][NextStructuredData]_vars

\* a JSON-LD script whose content is not valid JSON, or that has no content
InvalidJsonLd(e) == IsJsonLd(e) /\ ~HasReturned(json_loads(Get(e, "string", None)))

\* the document with the invalid JSON-LD scripts taken for plain scripts
InvalidAsPlain ==
    [i \in 1..Len(doc) |->
        IF InvalidJsonLd(doc[i]) THEN [k \in DOMAIN doc[i] \ {"type"} |-> doc[i][k]]
        ELSE doc[i]]

\* the texts of the JSON-LD scripts with valid content, in document order
ValidBlockTexts ==
    LET valid == SelectSeq(doc, LAMBDA e : IsJsonLd(e) /\ ~InvalidJsonLd(e))
    IN  [i \in 1..Len(valid) |-> valid[i].string]

\* C16: extract_seo_metadata skips every JSON-LD script whose content is not
\* valid JSON or is empty: the extraction returns, structured_data holds the
\* blocks of the valid scripts in document order, and every other field is
\* as extracted from the document with the invalid scripts taken for plain ones.
C16_InvalidJsonLdSkipped ==
    pc = "extracted" =>
        /\ HasReturned(seo_data)
        /\ [i \in 1..Len(seo_data.value.structured_data) |->
               seo_data.value.structured_data[i].text] = ValidBlockTexts
        /\ seo_data.value = extract_seo_metadata(InvalidAsPlain, url).value

-----------------------------------------------------------------------------
(* The project-scoped rules: add_recommendations_from_scrape of              *)
(* database.py 966-1018 and calculate_health_score of server.py 21-53, both  *)
(* reading the dict simple_web_scraper returns.                              *)

Min(a, b) == IF a <= b THEN a ELSE b

\* sum(1 for img in images if not img.get('alt')), database.py 997, server.py 36
images_without_alt(imgs) ==
    Len(SelectSeq(imgs, LAMBDA img : ~Truthy(Get(img, "alt", None))))

\* database.py 974-982
meta_description_rule(seo) ==
    IF ~Truthy(Get(seo, "meta_description", None))
    THEN <<[category |-> <<"S", "E", "O">>,
            issue |-> <<"M", "i", "s", "s", "i", "n", "g", " ", "M", "e", "t", "a", " ", "D", "e", "s", "c", "r", "i", "p", "t", "i", "o", "n">>,
            recommendation |-> <<"A", "d", "d", " ", "a", " ", "m", "e", "t", "a", " ", "d", "e", "s", "c", "r", "i", "p", "t", "i", "o", "n", " ", "t", "o", " ", "i", "m", "p", "r", "o", "v", "e", " ", "s", "e", "a", "r", "c", "h", " ", "e", "n", "g", "i", "n", "e", " ", "v", "i", "s", "i", "b", "i", "l", "i", "t", "y">>,
            priority |-> <<"h", "i", "g", "h">>,
            impact_score |-> 85]>>
    ELSE <<>>

\* database.py 985-993
title_rule(scraped) ==
    IF ~Truthy(Get(scraped, "title", None))
    THEN <<[category |-> <<"S", "E", "O">>,
            issue |-> <<"M", "i", "s", "s", "i", "n", "g", " ", "P", "a", "g", "e", " ", "T", "i", "t", "l", "e">>,
            recommendation |-> <<"A", "d", "d", " ", "a", " ", "d", "e", "s", "c", "r", "i", "p", "t", "i", "v", "e", " ", "p", "a", "g", "e", " ", "t", "i", "t", "l", "e", " ", "f", "o", "r", " ", "b", "e", "t", "t", "e", "r", " ", "S", "E", "O">>,
            priority |-> <<"h", "i", "g", "h">>,
            impact_score |-> 90]>>
    ELSE <<>>

\* database.py 996-1006
alt_text_rule(missing) ==
    IF missing > 0
    THEN <<[category |-> <<"A", "c", "c", "e", "s", "s", "i", "b", "i", "l", "i", "t", "y">>,
            issue |-> Str(missing) \o <<" ", "I", "m", "a", "g", "e", "s", " ", "M", "i", "s", "s", "i", "n", "g", " ", "A", "l", "t", " ", "T", "e", "x", "t">>,
            recommendation |-> <<"A", "d", "d", " ", "a", "l", "t", " ", "t", "e", "x", "t", " ", "t", "o", " ", "a", "l", "l", " ", "i", "m", "a", "g", "e", "s", " ", "f", "o", "r", " ", "b", "e", "t", "t", "e", "r", " ", "a", "c", "c", "e", "s", "s", "i", "b", "i", "l", "i", "t", "y", " ", "a", "n", "d", " ", "S", "E", "O">>,
            priority |-> <<"m", "e", "d", "i", "u", "m">>,
            impact_score |-> 70]>>
    ELSE <<>>

\* database.py 1009-1018
word_count_rule(words) ==
    IF words < 300
    THEN <<[category |-> <<"C", "o", "n", "t", "e", "n", "t">>,
            issue |-> <<"L", "o", "w", " ", "W", "o", "r", "d", " ", "C", "o", "u", "n", "t">>,
            recommendation |-> <<"I", "n", "c", "r", "e", "a", "s", "e", " ", "c", "o", "n", "t", "e", "n", "t", " ", "l", "e", "n", "g", "t", "h", ".", " ", "C", "u", "r", "r", "e", "n", "t", ":", " ">> \o Str(words) \o <<" ", "w", "o", "r", "d", "s", ".", " ", "A", "i", "m", " ", "f", "o", "r", " ", "3", "0", "0", "+", " ", "w", "o", "r", "d", "s", ".">>,
            priority |-> <<"m", "e", "d", "i", "u", "m">>,
            impact_score |-> 75]>>
    ELSE <<>>

\* database.py 966-1020: the recommendation_data dicts handed to
\* add_recommendation, one call per rule that holds, in source order
rules_from_seo(scraped, seo) ==
    meta_description_rule(seo) \o title_rule(scraped)
        \o alt_text_rule(images_without_alt(Get(seo, "images", <<>>)))
        \o word_count_rule(Get(seo, "word_count", 0))

add_recommendations_from_scrape(scraped) ==
    rules_from_seo(scraped, Get(scraped, "seo_metadata", <<>>))

\* server.py 27-28
title_deduction(scraped) == IF ~Truthy(Get(scraped, "title", None)) THEN 15 ELSE 0

\* server.py 29-30
meta_description_deduction(seo) ==
    IF ~Truthy(Get(seo, "meta_description", None)) THEN 10 ELSE 0

\* server.py 31-32
canonical_deduction(seo) == IF ~Truthy(Get(seo, "canonical_url", None)) THEN 5 ELSE 0

\* server.py 35-38
alt_text_deduction(missing) == IF missing > 0 THEN Min(10, missing * 2) ELSE 0

\* server.py 41-45
word_count_deduction(words) == IF words < 300 THEN 10 ELSE IF words < 500 THEN 5 ELSE 0

\* server.py 48-50
tracking_deduction(analytics) == IF Len(analytics) > 5 THEN 5 ELSE 0

\* server.py 53
clamp_score(score) == Max(0, Min(100, score))

\* server.py 23-53
health_from_seo(scraped, seo) ==
    clamp_score(100 - title_deduction(scraped) - meta_description_deduction(seo)
                    - canonical_deduction(seo)
                    - alt_text_deduction(images_without_alt(Get(seo, "images", <<>>)))
                    - word_count_deduction(Get(seo, "word_count", 0))
                    - tracking_deduction(Get(seo, "analytics", <<>>)))

calculate_health_score(scraped) ==
    health_from_seo(scraped, Get(scraped, "seo_metadata", <<>>))

-----------------------------------------------------------------------------
(* SpecProject: a page is scraped, and the scraped data is handed to         *)
(* add_recommendations_from_scrape and to calculate_health_score, in either  *)
(* order.                                                                    *)

MetaDescriptionEmpty == [tag |-> "meta", name |-> <<"d", "e", "s", "c", "r", "i", "p", "t", "i", "o", "n">>, content |-> <<>>]

MetaOgDescription == [tag |-> "meta", property |-> <<"o", "g", ":", "d", "e", "s", "c", "r", "i", "p", "t", "i", "o", "n">>, content |-> <<"A", " ", "s", "h", "o", "p">>]

ProjectCatalogue ==
    {TitleShop, TitleEmpty, MetaDescription, MetaDescriptionEmpty, MetaOgDescription,
     ImageWithAlt, ImageNoAlt, LinkCanonical, DivStyled}

InitProject ==
    /\ pc = "start"
    /\ url = SourceUrl
    /\ doc \in SeqsUpTo(ProjectCatalogue, MaxElements)
    /\ scraped_data = NotCalled /\ analysis = NotCalled /\ site_dir = NotCalled
    /\ files = <<>>
    /\ seo_data = NotCalled
    /\ analytics_data = <<>>
    /\ KeywordIdle /\ ScoreIdle /\ ProjectIdle /\ ServiceIdle

\* database.py 966-1020
AddRecommendationsFromScrape ==
    /\ pc = "scraped"
    /\ scraped_data.value # NoneDict
    /\ recommendations = NotCalled
    /\ recommendations' = Returned(add_recommendations_from_scrape(scraped_data.value))
    /\ UNCHANGED <<pc, pipelineVars, keywordVars, scoreVars, serviceVars, health_score,
                   seo_data, analytics_data>>

\* server.py 21-53
CalculateHealthScore ==
    /\ pc = "scraped"
    /\ scraped_data.value # NoneDict
    /\ health_score = NotCalled
    /\ health_score' = Returned(calculate_health_score(scraped_data.value))
    /\ UNCHANGED <<pc, pipelineVars, keywordVars, scoreVars, serviceVars, recommendations,
                   seo_data, analytics_data>>

NextProject == Scrape \/ AddRecommendationsFromScrape \/ CalculateHealthScore

SpecProject == InitProject /\ [][NextProject]_vars

-----------------------------------------------------------------------------
(* Properties of the project-scoped rules *)

\* the meta elements of the page whose key is description
DescriptionTags(d) ==
    SelectSeq(d, LAMBDA e : e.tag = "meta" /\ meta_name(e) = <<"d", "e", "s", "c", "r", "i", "p", "t", "i", "o", "n">>)

\* the page declares a description: its last description tag has a content
DeclaresDescription(d) ==
    /\ DescriptionTags(d) # <<>>
    /\ Truthy(Get(DescriptionTags(d)[Len(DescriptionTags(d))], "content", <<>>))

\* the recommendation_data with this issue text was handed to add_recommendation
Created(issue, priority, impact) ==
    \E i \in 1..Len(recommendations.value) :
        /\ recommendations.value[i].issue = issue
        /\ recommendations.value[i].priority = priority
        /\ recommendations.value[i].impact_score = impact

\* the health score of the scraped page when the deduction for the meta
\* description is the given one
HealthWith(scraped, seo, deduction) ==
    clamp_score(100 - title_deduction(scraped) - deduction
                    - canonical_deduction(seo)
                    - alt_text_deduction(images_without_alt(seo.images))
                    - word_count_deduction(seo.word_count)
                    - tracking_deduction(seo.analytics))

\* C17: for the scraped data of simple_web_scraper, the 'Missing Meta
\* Description' recommendation (priority high, impact_score 85) is created,
\* and the health-score deduction for a missing meta description is applied,
\* for every page without a description meta tag and for no page that
\* declares a description.
C17_MetaDescriptionMissing ==
    /\ HasReturned(recommendations) =>
           /\ DescriptionTags(doc) = <<>> => Created(<<"M", "i", "s", "s", "i", "n", "g", " ", "M", "e", "t", "a", " ", "D", "e", "s", "c", "r", "i", "p", "t", "i", "o", "n">>, <<"h", "i", "g", "h">>, 85)
           /\ DeclaresDescription(doc) => ~Created(<<"M", "i", "s", "s", "i", "n", "g", " ", "M", "e", "t", "a", " ", "D", "e", "s", "c", "r", "i", "p", "t", "i", "o", "n">>, <<"h", "i", "g", "h">>, 85)
    /\ HasReturned(health_score) =>
           /\ DescriptionTags(doc) = <<>> =>
                  health_score.value =
                      HealthWith(scraped_data.value, scraped_data.value.seo_metadata, 10)
           /\ DeclaresDescription(doc) =>
                  health_score.value =
                      HealthWith(scraped_data.value, scraped_data.value.seo_metadata, 0)

\* the document has a title element, and that element has text
HasTitleText(d) ==
    find_all(d, "title") # <<>> /\ Truthy(Get(find_all(d, "title")[1], "string", None))

\* C18: for the scraped data of simple_web_scraper, the 'Missing Page Title'
\* recommendation (priority high, impact_score 90) is created for every
\* document without a title element and for none that has a non-empty title.
C18_TitleMissing ==
    HasReturned(recommendations) =>
        /\ find_all(doc, "title") = <<>> => Created(<<"M", "i", "s", "s", "i", "n", "g", " ", "P", "a", "g", "e", " ", "T", "i", "t", "l", "e">>, <<"h", "i", "g", "h">>, 90)
        /\ HasTitleText(doc) => ~Created(<<"M", "i", "s", "s", "i", "n", "g", " ", "P", "a", "g", "e", " ", "T", "i", "t", "l", "e">>, <<"h", "i", "g", "h">>, 90)

-----------------------------------------------------------------------------
(* SpecMeta: extract_seo_metadata applied to pages of meta elements: keys    *)
(* given by name and by property, repeated keys, categorised keys, elements  *)
(* without a key and without a content.                                      *)

MaxMetas == 2

MetaOgTitle == [tag |-> "meta", property |-> <<"o", "g", ":", "t", "i", "t", "l", "e">>, content |-> <<"O", "l", "d", " ", "s", "h", "o", "p">>]

\* the same key, given by name
MetaOgTitleByName == [tag |-> "meta", name |-> <<"o", "g", ":", "t", "i", "t", "l", "e">>, content |-> <<"N", "e", "w", " ", "s", "h", "o", "p">>]

MetaTwitterLarge == [tag |-> "meta", name |-> <<"t", "w", "i", "t", "t", "e", "r", ":", "c", "a", "r", "d">>, content |-> <<"s", "u", "m", "m", "a", "r", "y", "_", "l", "a", "r", "g", "e", "_", "i", "m", "a", "g", "e">>]

MetaRobots == [tag |-> "meta", name |-> <<"r", "o", "b", "o", "t", "s">>, content |-> <<"i", "n", "d", "e", "x">>]

\* name wins over property
MetaRobotsNamed == [tag |-> "meta", name |-> <<"r", "o", "b", "o", "t", "s">>, property |-> <<"o", "g", ":", "r", "o", "b", "o", "t", "s">>, content |-> <<"n", "o", "i", "n", "d", "e", "x">>]

MetaViewport == [tag |-> "meta", name |-> <<"v", "i", "e", "w", "p", "o", "r", "t">>, content |-> <<"w", "i", "d", "t", "h", "=", "d", "e", "v", "i", "c", "e", "-", "w", "i", "d", "t", "h">>]

\* <meta name="viewport">
MetaViewportNoContent == [tag |-> "meta", name |-> <<"v", "i", "e", "w", "p", "o", "r", "t">>]

\* <meta charset="utf-8">: neither name nor property
MetaCharsetAttribute == [tag |-> "meta", charset |-> <<"u", "t", "f", "-", "8">>]

MetaCharset == [tag |-> "meta", name |-> <<"c", "h", "a", "r", "s", "e", "t">>, content |-> <<"u", "t", "f", "-", "8">>]

MetaLanguage == [tag |-> "meta", name |-> <<"l", "a", "n", "g", "u", "a", "g", "e">>, content |-> <<"e", "n">>]

\* <meta name="" property="og:type" content="website">
MetaEmptyName == [tag |-> "meta", name |-> <<>>, property |-> <<"o", "g", ":", "t", "y", "p", "e">>, content |-> <<"w", "e", "b", "s", "i", "t", "e">>]

MetaCatalogue ==
    {MetaDescription, MetaDescriptionEmpty, MetaOgDescription, MetaOgTitle, MetaOgTitleByName,
     MetaTwitter, MetaTwitterLarge, MetaRobots, MetaRobotsNamed, MetaViewport,
     MetaViewportNoContent, MetaCharsetAttribute, MetaCharset, MetaLanguage, MetaEmptyName,
     HeadingOne}

InitMeta ==
    /\ pc = "parsed"
    /\ url = SourceUrl
    /\ doc \in SeqsUpTo(MetaCatalogue, MaxMetas)
    /\ seo_data = NotCalled
    /\ analytics_data = <<>>
    /\ scraped_data = NotCalled /\ analysis = NotCalled /\ site_dir = NotCalled
    /\ files = <<>>
    /\ KeywordIdle /\ ScoreIdle /\ ProjectIdle /\ ServiceIdle

NextMeta == ExtractSeoMetadata

SpecMeta == InitMeta /\ [][NextMeta]_vars

\* the key a meta element carries: its name attribute, else its property
\* attribute; the empty text when it has neither
KeyOf(e) ==
    IF "name" \in DOMAIN e THEN e.name
    ELSE IF "property" \in DOMAIN e THEN e.property
    ELSE <<>>

\* the positions in the document of the meta elements carrying key k
Carriers(d, k) == {i \in 1..Len(d) : d[i].tag = "meta" /\ KeyOf(d[i]) = k}

\* the keys the meta elements of the document carry
KeysOf(d) == {KeyOf(d[i]) : i \in {j \in 1..Len(d) : d[j].tag = "meta"}} \ {<<>>}

\* the content of the last meta element carrying key k
LastContent(d, k) ==
    LET last == CHOOSE i \in Carriers(d, k) : \A j \in Carriers(d, k) : j <= i
    IN  IF "content" \in DOMAIN d[last] THEN d[last].content ELSE <<>>

\* the dict restricted to the keys with the prefix
Restricted(dict, prefix) ==
    [k \in {x \in DOMAIN dict : StartsWith(x, prefix)} |-> dict[k]]

\* C20: meta_tags maps each key (name, else property) to the content of the
\* last meta element carrying it, categorised keys included; open_graph and
\* twitter_cards are the restrictions of meta_tags to the keys beginning og:
\* and twitter:; robots_directive, viewport, charset and language are
\* meta_tags' values for those keys (None without the key).
C20_MetaTagsLastWins ==
    pc = "extracted" =>
        /\ HasReturned(seo_data)
        /\ DOMAIN seo_data.value.meta_tags = KeysOf(doc)
        /\ \A k \in KeysOf(doc) : seo_data.value.meta_tags[k] = LastContent(doc, k)
        /\ DOMAIN seo_data.value.open_graph = DOMAIN Restricted(seo_data.value.meta_tags, <<"o", "g", ":">>)
        /\ \A k \in DOMAIN seo_data.value.open_graph :
               seo_data.value.open_graph[k] = seo_data.value.meta_tags[k]
        /\ DOMAIN seo_data.value.twitter_cards =
               DOMAIN Restricted(seo_data.value.meta_tags, <<"t", "w", "i", "t", "t", "e", "r", ":">>)
        /\ \A k \in DOMAIN seo_data.value.twitter_cards :
               seo_data.value.twitter_cards[k] = seo_data.value.meta_tags[k]
        /\ seo_data.value.robots_directive = Get(seo_data.value.meta_tags, <<"r", "o", "b", "o", "t", "s">>, None)
        /\ seo_data.value.viewport = Get(seo_data.value.meta_tags, <<"v", "i", "e", "w", "p", "o", "r", "t">>, None)
        /\ seo_data.value.charset = Get(seo_data.value.meta_tags, <<"c", "h", "a", "r", "s", "e", "t">>, None)
        /\ seo_data.value.language = Get(seo_data.value.meta_tags, <<"l", "a", "n", "g", "u", "a", "g", "e">>, None)

C20_Witness ==
    /\ pc = "extracted"
    /\ doc = <<MetaOgTitle, MetaOgTitleByName>>
    /\ HasReturned(seo_data)
    /\ seo_data.value.meta_tags[<<"o", "g", ":", "t", "i", "t", "l", "e">>] = <<"N", "e", "w", " ", "s", "h", "o", "p">>
    /\ seo_data.value.open_graph[<<"o", "g", ":", "t", "i", "t", "l", "e">>] = <<"N", "e", "w", " ", "s", "h", "o", "p">>

-----------------------------------------------------------------------------
(* Further properties of the performance score, checked in SpecScore *)

\* the value of an indicator, 0 when the dict has no such key
Indicator(k) == IF k \in DOMAIN speed_indicators THEN speed_indicators[k] ELSE 0

\* the points taken off for one indicator with a high and a low tier
TierDeduction(v, high, high_points, low, low_points) ==
    CASE v > high -> high_points
      [] v > low /\ v <= high -> low_points
      [] OTHER -> 0

\* C22: the score is 100 minus 20 for more than 20 scripts (else minus 10
\* for more than 10), minus 15 for more than 50 inline styles (else minus 7
\* for more than 20), minus 10 when an image lacks alt text; it lies in
\* 0..100 and never takes off both tiers of one indicator.
C22_ScoreFormula ==
    pc = "scored" =>
        /\ performance_score.value =
               100 - TierDeduction(Indicator("total_scripts"), 20, 20, 10, 10)
                   - TierDeduction(Indicator("inline_styles"), 50, 15, 20, 7)
                   - (IF Indicator("images_without_alt") > 0 THEN 10 ELSE 0)
        /\ performance_score.value \in 0..100
        /\ performance_score.value >= 100 - 20 - 15 - 10

C22_Witness ==
    /\ pc = "scored"
    /\ Indicator("total_scripts") = 21
    /\ Indicator("inline_styles") = 51
    /\ Indicator("images_without_alt") = 1
    /\ performance_score.value = 55

-----------------------------------------------------------------------------
(* SpecSignatures: extract_analytics_data applied to scripts that name       *)
(* Google Analytics in their inline text or in their src.                    *)

\* <script>/* google-analytics */ var id='UA-12345-6'</script>
ScriptGAInlineName == [tag |-> "script", string |-> <<"/", "*", " ", "g", "o", "o", "g", "l", "e", "-", "a", "n", "a", "l", "y", "t", "i", "c", "s", " ", "*", "/", " ", "v", "a", "r", " ", "i", "d", "=", "'", "U", "A", "-", "1", "2", "3", "4", "5", "-", "6", "'">>]

\* the Mixpanel snippet after a comment naming google-analytics
ScriptGAInlineNameMixpanel ==
    [tag |-> "script", string |-> <<"/", "*", " ", "g", "o", "o", "g", "l", "e", "-", "a", "n", "a", "l", "y", "t", "i", "c", "s", " ", "*", "/", " ">> \o ScriptMixpanel.string]

SignatureCatalogue ==
    {ScriptGA4, ScriptUA, ScriptGANoId, ScriptGASrc, ScriptGtagLoader, ScriptGTM, ScriptGAandGTM,
     ScriptMixpanel, ScriptClarity, ScriptPlain, ScriptGAInlineName, ScriptGAInlineNameMixpanel}

InitSignatures ==
    /\ pc = "parsed"
    /\ doc \in SeqsUpTo(SignatureCatalogue, MaxScripts)
    /\ url = None
    /\ analytics_data = <<>>
    /\ seo_data = NotCalled
    /\ scraped_data = NotCalled /\ analysis = NotCalled /\ site_dir = NotCalled
    /\ files = <<>>
    /\ KeywordIdle /\ ScoreIdle /\ ProjectIdle /\ ServiceIdle

NextSignatures == ExtractAnalytics

SpecSignatures == InitSignatures /\ [][NextSignatures]_vars

\* 'gtag', 'ga(' or 'google-analytics' occurs in the inline text or in the src
NamesGA(script) ==
    \E part \in {Get(script, "string", <<>>), Get(script, "src", <<>>)} :
       \E name \in {<<"g", "t", "a", "g">>, <<"g", "a", "(">>, <<"g", "o", "o", "g", "l", "e", "-", "a", "n", "a", "l", "y", "t", "i", "c", "s">>} : Contains(part, name)

\* the scripts naming Google Analytics in which the GA extractor finds an ID
ScriptsNamingGA ==
    SelectSeq(find_all(doc, "script"),
              LAMBDA s : NamesGA(s) /\ YieldsId(s, "google_analytics"))

\* the scripts not naming Google Analytics that are classified as k and yield an ID
OtherScriptsRecordedAs(k) ==
    SelectSeq(find_all(doc, "script"),
              LAMBDA s : ~NamesGA(s) /\ FirstSignature(s) = k /\ YieldsId(s, k))

\* C23: a script with 'gtag', 'ga(' or 'google-analytics' in its inline text
\* or in its src takes the Google Analytics branch and no later one: the
\* google_analytics list holds one record per such script with an ID, in
\* order, and the other tool lists hold records of the other scripts only.
C23_GASignatureInTextOrSrc ==
    pc = "fingerprinted" =>
        /\ Len(analytics_data["google_analytics"]) = Len(ScriptsNamingGA)
        /\ \A i \in 1..Len(ScriptsNamingGA) :
              /\ i <= Len(analytics_data["google_analytics"])
              /\ analytics_data["google_analytics"][i].content_preview =
                    Get(ScriptsNamingGA[i], "string", <<>>)
        /\ \A k \in ToolKeySet \ {"google_analytics"} :
              Len(analytics_data[k]) = Len(OtherScriptsRecordedAs(k))

-----------------------------------------------------------------------------
(* SpecSocial: extract_seo_metadata applied to pages of anchors, the source  *)
(* URL being on an ordinary host or on a social host.                        *)

SocialSourceUrl == <<"h", "t", "t", "p", "s", ":", "/", "/", "w", "w", "w", ".", "f", "a", "c", "e", "b", "o", "o", "k", ".", "c", "o", "m", "/", "s", "h", "o", "p", "/">>

AnchorTwitter == [tag |-> "a", href |-> <<"h", "t", "t", "p", "s", ":", "/", "/", "t", "w", "i", "t", "t", "e", "r", ".", "c", "o", "m", "/", "s", "h", "o", "p">>, text |-> <<"T", "w", "i", "t", "t", "e", "r">>]

\* a host that only contains a social domain
AnchorLookalike == [tag |-> "a", href |-> <<"h", "t", "t", "p", "s", ":", "/", "/", "n", "o", "t", "f", "a", "c", "e", "b", "o", "o", "k", ".", "c", "o", "m", ".", "e", "x", "a", "m", "p", "l", "e", "/">>, text |-> <<"F", "a", "n", " ", "p", "a", "g", "e">>]

\* a social host reached by a scheme-relative href
AnchorSchemeRelativeSocial == [tag |-> "a", href |-> <<"/", "/", "w", "w", "w", ".", "r", "e", "d", "d", "i", "t", ".", "c", "o", "m", "/", "r", "/", "s", "h", "o", "p">>, text |-> <<"R", "e", "d", "d", "i", "t">>]

SocialCatalogue ==
    {AnchorRootRelative, AnchorRelative, AnchorAbsoluteOtherHost, AnchorMailto, AnchorNoHref,
     AnchorSocial, AnchorTwitter, AnchorLookalike, AnchorSchemeRelativeSocial}

InitSocial ==
    /\ pc = "parsed"
    /\ url \in {SourceUrl, SocialSourceUrl}
    /\ doc \in SeqsUpTo(SocialCatalogue, MaxAnchors)
    /\ seo_data = NotCalled
    /\ analytics_data = <<>>
    /\ scraped_data = NotCalled /\ analysis = NotCalled /\ site_dir = NotCalled
    /\ files = <<>>
    /\ KeywordIdle /\ ScoreIdle /\ ProjectIdle /\ ServiceIdle

NextSocial == ExtractSeoMetadata

SpecSocial == InitSocial /\ [][NextSocial]_vars

SocialDomainNames ==
    {<<"f", "a", "c", "e", "b", "o", "o", "k", ".", "c", "o", "m">>, <<"t", "w", "i", "t", "t", "e", "r", ".", "c", "o", "m">>, <<"i", "n", "s", "t", "a", "g", "r", "a", "m", ".", "c", "o", "m">>, <<"l", "i", "n", "k", "e", "d", "i", "n", ".", "c", "o", "m">>,
     <<"y", "o", "u", "t", "u", "b", "e", ".", "c", "o", "m">>, <<"t", "i", "k", "t", "o", "k", ".", "c", "o", "m">>, <<"p", "i", "n", "t", "e", "r", "e", "s", "t", ".", "c", "o", "m">>, <<"r", "e", "d", "d", "i", "t", ".", "c", "o", "m">>}

\* the host of the link's resolved URL contains one of the eight social domains
HasSocialHost(link) ==
    \E name \in SocialDomainNames : Contains(urlparse(link.full_url).netloc, name)

-----------------------------------------------------------------------------
(* Properties of the report, checked in Spec *)

\* the report files written so far
ReportFiles ==
    {p \in DOMAIN files :
        /\ Len(p) >= Len(<<"/", "s", "e", "o", "_", "r", "e", "p", "o", "r", "t", ".", "t", "x", "t">>)
        /\ SubSeq(p, Len(p) - Len(<<"/", "s", "e", "o", "_", "r", "e", "p", "o", "r", "t", ".", "t", "x", "t">>) + 1, Len(p)) = <<"/", "s", "e", "o", "_", "r", "e", "p", "o", "r", "t", ".", "t", "x", "t">>}

\* the lines of the BASIC SEO INFORMATION section of report p
BasicLines(p) == {files[p].sections.basic[i] : i \in 1..Len(files[p].sections.basic)}

\* the field is None or absent in the seo_metadata handed to the save
HasNone(field) == Get(scraped_data.value.seo_metadata, field, None) = None

\* C25: in the report, the canonical URL, the robots directive, the favicon
\* and the sitemap each read 'Not found' when the field is None or absent in
\* seo_metadata.
C25_NotFoundRendered ==
    \A p \in ReportFiles :
        /\ HasNone("canonical_url") => (<<"C", "a", "n", "o", "n", "i", "c", "a", "l", " ", "U", "R", "L", ":", " ", "N", "o", "t", " ", "f", "o", "u", "n", "d">> \in BasicLines(p))
        /\ HasNone("robots_directive") => (<<"R", "o", "b", "o", "t", "s", " ", "D", "i", "r", "e", "c", "t", "i", "v", "e", ":", " ", "N", "o", "t", " ", "f", "o", "u", "n", "d">> \in BasicLines(p))
        /\ HasNone("favicon") => (<<"F", "a", "v", "i", "c", "o", "n", ":", " ", "N", "o", "t", " ", "f", "o", "u", "n", "d">> \in BasicLines(p))
        /\ HasNone("sitemap") => (<<"S", "i", "t", "e", "m", "a", "p", ":", " ", "N", "o", "t", " ", "f", "o", "u", "n", "d">> \in BasicLines(p))

-----------------------------------------------------------------------------
(* SpecHeadings: analyze_scraped_content applied to pages that differ in     *)
(* the numbers of their headings, on both sides of the thresholds of         *)
(* main.py 700-710.                                                          *)

\* numbers of h1, h2, h3 and h4 headings
HeadingProfiles == {0, 1, 2} \X {0, 3, 4} \X {0, 5, 6} \X {0, 4, 11}

\* the headings dict of a page with c[1] h1, c[2] h2, c[3] h3 and c[4] h4 headings
HeadingsOf(c) ==
    [k \in {HeadingTags[i] : i \in 1..6} |->
        IF k = "h1" THEN Repeat(HeadingOne.text, c[1])
        ELSE IF k = "h2" THEN Repeat(HeadingTwo.text, c[2])
        ELSE IF k = "h3" THEN Repeat(HeadingTwo.text, c[3])
        ELSE IF k = "h4" THEN Repeat(HeadingTwo.text, c[4])
        ELSE <<>>]

\* the scraped data of a page with these headings and the fallback's empty
\* seo_metadata, which has no headings dict entries at all
HeadingPages ==
    {ScrapedPage([PageSeoMetadata(1200, LinkCanonical.href, None, <<>>, 0, 0, 0, 0, <<>>, <<>>)
                     EXCEPT !.headings = HeadingsOf(c)], 0, 0) : c \in HeadingProfiles}
    \cup {ScrapedPage(fallback_seo_metadata, 0, 0)}

InitHeadings ==
    /\ pc = "scraped"
    /\ url = SourceUrl /\ doc = <<>>
    /\ scraped_data \in {Returned(sd) : sd \in HeadingPages}
    /\ analysis = NotCalled /\ site_dir = NotCalled /\ files = <<>>
    /\ seo_data = NotCalled
    /\ analytics_data = <<>>
    /\ KeywordIdle /\ ScoreIdle /\ ProjectIdle /\ ServiceIdle

NextHeadings == AnalyzeScraped

SpecHeadings == InitHeadings /\ [][NextHeadings]_vars

\* the number of headings of a level on the analysed page
Headings(level) ==
    IF level \in DOMAIN scraped_data.value.seo_metadata.headings
    THEN Len(scraped_data.value.seo_metadata.headings[level]) ELSE 0

AllHeadings ==
    Headings("h1") + Headings("h2") + Headings("h3") + Headings("h4") + Headings("h5")
    + Headings("h6")

ContentType == analysis.value.content_categorization.content_type

\* C26: content_type is decided by the first rule that matches, in the order
\* no headings, one H1 and at most 5 headings, more than 10 headings, more
\* than 3 H2, more than 5 H3, otherwise Unknown; so Simple Page holds exactly
\* without headings and Landing Page only with exactly one H1.
C26_ContentTypeByFirstRule ==
    Analyzed =>
        /\ ContentType =
              CASE AllHeadings = 0 -> "Simple Page"
                [] AllHeadings > 0 /\ AllHeadings <= 5 /\ Headings("h1") = 1 -> "Landing Page"
                [] AllHeadings > 10 -> "Content-Rich Page"
                [] AllHeadings > 5 /\ AllHeadings <= 10 /\ Headings("h2") > 3 -> "Article/Blog Post"
                [] AllHeadings > 0 /\ AllHeadings <= 5 /\ Headings("h1") # 1 /\ Headings("h2") > 3
                      -> "Article/Blog Post"
                [] AllHeadings > 5 /\ AllHeadings <= 10 /\ Headings("h2") <= 3 /\ Headings("h3") > 5
                      -> "Product/Service Page"
                [] OTHER -> "Unknown"
        /\ (ContentType = "Simple Page") <=> (AllHeadings = 0)
        /\ (ContentType = "Landing Page") => (Headings("h1") = 1)

C26_Witness ==
    /\ Analyzed
    /\ Headings("h1") = 1
    /\ Headings("h2") = 4
    /\ Headings("h3") = 6
    /\ AllHeadings = 11
    /\ ContentType = "Content-Rich Page"

-----------------------------------------------------------------------------
(* The analyzer's effect on its argument, checked in SpecAnalysis *)

-----------------------------------------------------------------------------
(* The alt text rule and the alt text deduction, checked in SpecAnalysis *)

\* the images of the analysed page, and those with an alt text
PageImages == scraped_data.value.seo_metadata.images

PageImagesWithAlt == SelectSeq(PageImages, LAMBDA img : img.alt # <<>> /\ img.alt # None)

\* the performance score of the analysed page without a deduction for alt text
ScoreWithoutAltDeduction ==
    100 - TierDeduction(scraped_data.value.seo_metadata.page_speed_indicators.total_scripts,
                        20, 20, 10, 10)
        - TierDeduction(scraped_data.value.seo_metadata.page_speed_indicators.inline_styles,
                        50, 15, 20, 7)

\* C28: the alt text recommendation is present exactly when alt_text_coverage
\* is below 80 percent; a page without images has coverage 0 and so receives
\* it, while its performance score carries no deduction for alt text.
C28_AltTextRule ==
    Analyzed =>
        /\ Recommends(analysis.value, 3) <=>
              (analysis.value.media_analysis.alt_text_coverage.num
                   < 80 * analysis.value.media_analysis.alt_text_coverage.den)
        /\ Recommends(analysis.value, 3) <=>
              (PageImages = <<>> \/ 100 * Len(PageImagesWithAlt) < 80 * Len(PageImages))
        /\ PageImages = <<>> =>
              /\ analysis.value.media_analysis.alt_text_coverage.num = 0
              /\ Recommends(analysis.value, 3)
              /\ analysis.value.performance_insights.performance_score = ScoreWithoutAltDeduction

\* a page without images: the recommendation, and a score of 100 - 10 - 7
C28_Witness ==
    /\ Analyzed
    /\ PageImages = <<>>
    /\ Recommends(analysis.value, 3)
    /\ scraped_data.value.seo_metadata.page_speed_indicators.total_scripts = 16
    /\ scraped_data.value.seo_metadata.page_speed_indicators.inline_styles = 31
    /\ analysis.value.performance_insights.performance_score = 83

-----------------------------------------------------------------------------
(* SpecSaves: two save operations of save_content_to_files under way at    *)
(* once, as the request threads of the server run them.  Each operation    *)
(* advances one system call at a time: reading the clock for its name,     *)
(* testing and creating its directory, writing one file.                   *)

Savers == {1, 2}

WwwSourceUrl == <<"h", "t", "t", "p", "s", ":", "/", "/", "w", "w", "w", ".", "a", ".", "i", "o", "/", "d", "o", "c", "s", "/">>

BlogUrl == <<"h", "t", "t", "p", "s", ":", "/", "/", "a", ".", "i", "o", "/", "b", "l", "o", "g", "/">>

SavedUrls == {SourceUrl, WwwSourceUrl, BlogUrl}

\* what simple_web_scraper handed to the save: two pages, or None after a failed request
SavedPages ==
    {simple_web_scraper(SourceUrl, "ok", <<TitleShop, ImageWithAlt>>),
     simple_web_scraper(SourceUrl, "ok", <<HeadingOne, ImageWithAlt>>),
     NoneDict}

\* the entry of a directory in the file system
Directory == <<"<directory>">>

\* the files of one scrape in the order they are written, main.py 414-489
SaveOrder == <<"index", "styles", "scripts", "links", "metadata", "seo_report">>

save_file_names ==
    [index |-> <<"i", "n", "d", "e", "x", ".", "h", "t", "m", "l">>, styles |-> <<"s", "t", "y", "l", "e", "s", ".", "c", "s", "s">>, scripts |-> <<"s", "c", "r", "i", "p", "t", "s", ".", "j", "s">>,
     links |-> <<"l", "i", "n", "k", "s", ".", "t", "x", "t">>, metadata |-> <<"m", "e", "t", "a", "d", "a", "t", "a", ".", "j", "s", "o", "n">>, seo_report |-> <<"s", "e", "o", "_", "r", "e", "p", "o", "r", "t", ".", "t", "x", "t">>]

\* main.py 409: os.path.join(scraped_dir, base_filename)
site_dir_of(base_filename) == <<"s", "c", "r", "a", "p", "e", "d", "_", "s", "i", "t", "e", "s", "/">> \o base_filename

\* main.py 414-623: what is written to file k at the clock reading now
save_file_content(sd, u, now, k) ==
    CASE k = "index" -> sd.html_content
      [] k = "styles" -> css_file(sd)
      [] k = "scripts" -> js_file(sd)
      [] k = "links" -> links_file(sd, u, now)
      [] k = "metadata" -> metadata(sd, u, now)
      [] k = "seo_report" -> seo_report(sd, u, now)

FirstReading == CHOOSE r \in ClockReadings : r.time[3] = <<"0", "0">>

InitSaves ==
    /\ pc = "saving"
    /\ wall_clock = FirstReading
    /\ saves \in [Savers -> {[at |-> "start", url |-> u, scraped_data |-> sd,
                              base_filename |-> None, outcome |-> NotCalled] :
                                 u \in SavedUrls, sd \in SavedPages}]
    /\ files = <<>>
    /\ url = None /\ doc = <<>> /\ scraped_data = NotCalled
    /\ analysis = NotCalled /\ site_dir = NotCalled
    /\ seo_data = NotCalled /\ analytics_data = <<>>
    /\ KeywordIdle /\ ScoreIdle /\ ProjectIdle
    /\ tracker_data = NoneDict /\ add_results = <<>> /\ invocations = <<>>

SavesFrame ==
    UNCHANGED <<pc, url, doc, scraped_data, analysis, site_dir, seo_data, analytics_data,
                keywordVars, scoreVars, projectVars, tracker_data, add_results, invocations>>

\* a second passes
Tick ==
    /\ wall_clock = FirstReading
    /\ wall_clock' = CHOOSE r \in ClockReadings : r # wall_clock
    /\ UNCHANGED <<saves, files>>
    /\ SavesFrame

\* main.py 398-407: the guard, then get_safe_filename reads the clock
SaveName(p) ==
    /\ saves[p].at = "start"
    /\ saves' = [saves EXCEPT ![p] =
                    IF saves[p].scraped_data = NoneDict
                    THEN [@ EXCEPT !.at = "returned", !.outcome = Returned(None)]
                    ELSE [@ EXCEPT !.at = "exists",
                                   !.base_filename = get_safe_filename(saves[p].url, wall_clock)]]
    /\ UNCHANGED <<wall_clock, files>>
    /\ SavesFrame

\* main.py 410: os.path.exists(site_dir)
SaveDirExists(p) ==
    /\ saves[p].at = "exists"
    /\ saves' = [saves EXCEPT ![p].at =
                    IF site_dir_of(saves[p].base_filename) \in DOMAIN files
                    THEN "index" ELSE "makedirs"]
    /\ UNCHANGED <<wall_clock, files>>
    /\ SavesFrame

\* main.py 411: os.makedirs(site_dir), which raises when the directory exists
SaveMakeDirs(p) ==
    /\ saves[p].at = "makedirs"
    /\ LET dir == site_dir_of(saves[p].base_filename)
       IN  IF dir \in DOMAIN files
           THEN /\ saves' = [saves EXCEPT ![p].at = "failed",
                                          ![p].outcome = Raised("FileExistsError")]
                /\ files' = files
           ELSE /\ saves' = [saves EXCEPT ![p].at = "index"]
                /\ files' = Overlay(files, [f \in {dir} |-> Directory])
    /\ UNCHANGED wall_clock
    /\ SavesFrame

\* the position after the file k
after_file(k, report) ==
    IF k = "seo_report" THEN (IF report.complete THEN "returned" ELSE "failed")
    ELSE SaveOrder[1 + CHOOSE i \in 1..Len(SaveOrder) : SaveOrder[i] = k]

\* main.py 414-623: open(file, "w") and the writes of one file; the report may
\* raise while it is written, and the function returns site_dir after it
SaveWrite(p) ==
    /\ saves[p].at \in DOMAIN save_file_names
    /\ LET s == saves[p]
           dir == site_dir_of(s.base_filename)
           content == save_file_content(s.scraped_data, s.url, wall_clock, s.at)
       IN  /\ files' = Overlay(files, [f \in {dir \o <<"/">> \o save_file_names[s.at]} |-> content])
           /\ saves' = [saves EXCEPT ![p].at = after_file(s.at, content),
                                     ![p].outcome =
                                         IF s.at # "seo_report" THEN @
                                         ELSE IF content.complete THEN Returned(dir)
                                         ELSE Raised("ZeroDivisionError")]
    /\ UNCHANGED wall_clock
    /\ SavesFrame

NextSaves ==
    \/ Tick
    \/ \E p \in Savers : SaveName(p) \/ SaveDirExists(p) \/ SaveMakeDirs(p) \/ SaveWrite(p)

SpecSaves == InitSaves /\ [][NextSaves]_vars

\* the save operations that have their base filename
Named == {p \in Savers : saves[p].base_filename # None}

\* C29: any two save operations, two concurrent saves of the same URL started
\* within the same second included, get distinct base filenames, so that
\* their files go to different directories.
C29_DistinctBaseFilenames ==
    \A p, q \in Named : p # q => saves[p].base_filename # saves[q].base_filename

\* a file one save has written is never written again by another save
C29_NeverOverwritten ==
    [][\A f \in DOMAIN files \ {site_dir_of(saves[p].base_filename) : p \in Named} :
           files'[f] = files[f]]_vars

-----------------------------------------------------------------------------
(* SpecTracker: the SiteTracker of site_tracker.py, its data in memory and *)
(* its JSON file, under calls of add_scraped_site.                         *)

MaxCalls == 3

TrackerFile == <<"s", "i", "t", "e", "_", "t", "r", "a", "c", "k", "e", "r", ".", "j", "s", "o", "n">>

OtherHostUrl == <<"h", "t", "t", "p", "s", ":", "/", "/", "b", ".", "i", "o", "/">>

BadNetlocUrl == <<"h", "t", "t", "p", ":", "/", "/", "[", "b", "a", "d">>

TrackedUrls == {SourceUrl, WwwSourceUrl, OtherHostUrl, BadNetlocUrl}

\* the scraped data of a page, as simple_web_scraper returns it
TrackedPages == {simple_web_scraper(SourceUrl, "ok", <<TitleShop, ImageWithAlt>>)}

\* how open(tracker_file, 'w') ends
WriteOutcomes == {"ok", "PermissionError"}

\* site_tracker.py 28-39
create_new_tracker(now) ==
    [metadata |-> [created |-> isoformat(now), last_updated |-> isoformat(now),
                   version |-> <<"1", ".", "0">>, total_sites_scraped |-> 0, total_optimizations |-> 0],
     sites |-> <<>>]

\* site_tracker.py 47-50
get_site_key(u) ==
    IF urlparse(u).ok THEN Returned(Replace(Lower(urlparse(u).netloc), <<"w", "w", "w", ".">>, <<>>))
    ELSE Raised("ValueError")

\* site_tracker.py 68-75
with_site_entry(data, site_key, now) ==
    IF site_key \in DOMAIN data.sites THEN data
    ELSE [data EXCEPT !.sites =
             Overlay(@, [k \in {site_key} |->
                            [domain |-> site_key, first_scraped |-> isoformat(now),
                             scrapes |-> <<>>, optimizations |-> <<>>]])]

\* site_tracker.py 77-92
scrape_record(u, sd, saved_directory, user_email, now) ==
    [url |-> u, scraped_at |-> isoformat(now), saved_directory |-> saved_directory,
     user_email |-> user_email, title |-> Get(sd, "title", <<"U", "n", "k", "n", "o", "w", "n">>),
     stats |-> [links_count |-> Len(Get(sd, "links", <<>>)),
                inline_styles_count |-> Len(Get(Get(sd, "css_content", <<>>), "inline_styles", <<>>)),
                internal_stylesheets_count |-> Len(Get(Get(sd, "css_content", <<>>), "internal_stylesheets", <<>>)),
                external_stylesheets_count |-> Len(Get(Get(sd, "css_content", <<>>), "external_stylesheets", <<>>)),
                inline_scripts_count |-> Len(Get(Get(sd, "js_content", <<>>), "inline_scripts", <<>>)),
                external_scripts_count |-> Len(Get(Get(sd, "js_content", <<>>), "external_scripts", <<>>))]]

\* site_tracker.py 94-98
with_scrape(data, site_key, record, now) ==
    [data EXCEPT !.sites[site_key] =
                     Overlay([@ EXCEPT !.scrapes = Append(@, record)],
                             [k \in {"last_scraped"} |-> isoformat(now)]),
                 !.metadata.total_sites_scraped = @ + 1]

\* site_tracker.py 43, the assignment _save_tracker makes before it opens the file
with_last_updated(data, now) == [data EXCEPT !.metadata.last_updated = isoformat(now)]

\* site_tracker.py 52-105: the tracker after the call and what the call returns,
\* when open(tracker_file, 'w') ends with outcome write
add_scraped_site(data, u, sd, saved_directory, user_email, now, write) ==
    IF HasRaised(get_site_key(u)) THEN [data |-> data, result |-> FALSE]
    ELSE [data |-> with_last_updated(
                       with_scrape(with_site_entry(data, get_site_key(u).value, now),
                                   get_site_key(u).value,
                                   scrape_record(u, sd, saved_directory, user_email, now),
                                   now),
                       now),
          result |-> write = "ok"]

\* sum(len(site[field]) for site in sites.values()), over the sites of keys
RECURSIVE sum_of_lengths(_, _, _)
sum_of_lengths(sites, keys, field) ==
    IF keys = {} THEN 0
    ELSE LET k == CHOOSE key \in keys : TRUE
         IN  Len(sites[k][field]) + sum_of_lengths(sites, keys \ {k}, field)

\* site_tracker.py 194-196, 220-226: the counts of the statistics and the
\* metadata (recent_activities, which no property reads, is left out)
get_site_stats(data) ==
    [total_sites |-> Cardinality(DOMAIN data.sites),
     total_scrapes |-> sum_of_lengths(data.sites, DOMAIN data.sites, "scrapes"),
     total_optimizations |-> sum_of_lengths(data.sites, DOMAIN data.sites, "optimizations"),
     metadata |-> data.metadata]

InitTracker ==
    /\ pc = "tracking"
    /\ wall_clock = FirstReading
    /\ tracker_data = create_new_tracker(FirstReading)
    /\ add_results = <<>>
    /\ files = <<>>
    /\ saves = <<>> /\ invocations = <<>>
    /\ url = None /\ doc = <<>> /\ scraped_data = NotCalled
    /\ analysis = NotCalled /\ site_dir = NotCalled
    /\ seo_data = NotCalled /\ analytics_data = <<>>
    /\ KeywordIdle /\ ScoreIdle /\ ProjectIdle

TrackerFrame ==
    UNCHANGED <<pc, url, doc, scraped_data, analysis, site_dir, seo_data, analytics_data,
                keywordVars, scoreVars, projectVars, saves, invocations>>

\* site_tracker.py 52-105 with _save_tracker, 41-45
AddScrapedSite ==
    /\ Len(add_results) < MaxCalls
    /\ \E u \in TrackedUrls, sd \in TrackedPages, write \in WriteOutcomes :
          LET call == add_scraped_site(tracker_data, u, sd, site_dir_of(get_safe_filename(SourceUrl, wall_clock)),
                                       None, wall_clock, write)
          IN  /\ tracker_data' = call.data
              /\ add_results' = Append(add_results, call.result)
              /\ files' = IF call.result
                          THEN Overlay(files, [f \in {TrackerFile} |-> call.data])
                          ELSE files
    /\ UNCHANGED wall_clock
    /\ TrackerFrame

NextTracker == Tick \/ AddScrapedSite

SpecTracker == InitTracker /\ [][NextTracker]_vars

\* the calls of add_scraped_site that returned True
TrueReturns == {i \in 1..Len(add_results) : add_results[i]}

\* C30: after any sequence of calls of add_scraped_site,
\* metadata.total_sites_scraped equals the number of calls that returned True
\* and equals the total number of scrape records get_site_stats reports.
C30_TotalCountsTrueReturns ==
    /\ tracker_data.metadata.total_sites_scraped = Cardinality(TrueReturns)
    /\ tracker_data.metadata.total_sites_scraped = get_site_stats(tracker_data).total_scrapes

\* a call that returns False leaves the tracker in memory as it was
C30_FalseLeavesTracker ==
    [][(Len(add_results') > Len(add_results) /\ ~add_results'[Len(add_results')])
           => tracker_data' = tracker_data]_vars

-----------------------------------------------------------------------------
(* SpecPipelines: two invocations of the analysis pipeline on different    *)
(* documents, as worker threads run them.  An invocation advances one      *)
(* section of extract_seo_metadata, one iteration of the script loop of    *)
(* extract_analytics_data, or analyze_scraped_content at a time; the       *)
(* sections of different invocations interleave freely.                    *)

Workers == {1, 2}

PipelineDocs ==
    {<<TitleShop, HeadingOne, ScriptGA4, ScriptFacebook, AnchorRootRelative, ImageWithAlt>>,
     <<TitleShop, ScriptHotjar, MetaFacebook, AnchorAbsoluteOtherHost>>,
     <<HeadingTwo, ScriptUA, ScriptMixpanel, DivStyled>>,
     <<ScriptPlain, AnchorBadNetloc>>}

\* the locals of every invocation in one frame, as globals of the module would be
frame_of_module(i) == 1

\* the frame that holds the locals of invocation i (seo_data, analytics_data,
\* scripts): each call of a function has a frame of its own, main.py 55, 1003
frame_of(i) == i

\* the locals of invocation i
locals(i) == invocations[frame_of(i)]

\* main.py 311-347: the scraped data handed to the analyzer, for the outcome of
\* extract_seo_metadata
scraped_with(d, u, extracted) ==
    [simple_web_scraper(u, "ok", d) EXCEPT !.seo_metadata = seo_metadata_or_fallback(extracted)]

InitPipelines ==
    /\ pc = "serving"
    /\ invocations \in {inv \in [Workers -> {[at |-> "start", doc |-> d, url |-> SourceUrl,
                                               seo_data |-> <<>>, analytics_data |-> <<>>,
                                               scripts |-> <<>>, extracted |-> NotCalled,
                                               analysis |-> NotCalled] : d \in PipelineDocs}] :
                            inv[1].doc # inv[2].doc}
    /\ wall_clock = None /\ saves = <<>> /\ tracker_data = NoneDict /\ add_results = <<>>
    /\ PipelineIdle
    /\ seo_data = NotCalled /\ analytics_data = <<>>
    /\ KeywordIdle /\ ScoreIdle /\ ProjectIdle

PipelinesFrame ==
    UNCHANGED <<pc, pipelineVars, seo_data, analytics_data, keywordVars, scoreVars,
                projectVars, wall_clock, saves, tracker_data, add_results>>

\* main.py 55-141: seo_data is created and filled up to the structured data
SeoBegin(i) ==
    /\ invocations[i].at = "start"
    /\ LET parsed == structured_data(invocations[i].doc)
       IN  invocations' =
               IF HasRaised(parsed)
               THEN [invocations EXCEPT ![i].extracted = parsed, ![i].at = "analyze"]
               ELSE [invocations EXCEPT
                        ![frame_of(i)].seo_data = before_links(invocations[i].doc, parsed.value),
                        ![i].at = "links"]
    /\ PipelinesFrame

\* main.py 143-177: the loop over the anchors
SeoLinks(i) ==
    /\ invocations[i].at = "links"
    /\ LET base_url == urlparse(invocations[i].url)
           linked == IF ~base_url.ok THEN Raised("ValueError")
                     ELSE categorize_links(anchors_with_href(invocations[i].doc),
                                           invocations[i].url, base_url.netloc,
                                           locals(i).seo_data)
       IN  invocations' =
               IF HasRaised(linked)
               THEN [invocations EXCEPT ![i].extracted = linked, ![i].at = "analyze"]
               ELSE [invocations EXCEPT ![frame_of(i)].seo_data = linked.value,
                                        ![i].at = "analytics"]
    /\ PipelinesFrame

\* main.py 179-197, then the call of extract_analytics_data up to its loop, 1003-1019
SeoAnalytics(i) ==
    /\ invocations[i].at = "analytics"
    /\ invocations' =
           [invocations EXCEPT
               ![frame_of(i)].seo_data = [@ EXCEPT !.analytics = analytics_scripts(invocations[i].doc)],
               ![frame_of(i)].analytics_data = EmptyAnalyticsData,
               ![frame_of(i)].scripts = find_all(invocations[i].doc, "script"),
               ![i].at = "scripts"]
    /\ PipelinesFrame

\* main.py 1021-1062: one iteration of the loop over the scripts
AnalyticsScript(i) ==
    /\ invocations[i].at = "scripts"
    /\ locals(i).scripts # <<>>
    /\ invocations' =
           [invocations EXCEPT
               ![frame_of(i)].analytics_data = classify_script(Head(locals(i).scripts), @),
               ![frame_of(i)].scripts = Tail(@)]
    /\ PipelinesFrame

\* main.py 1063-1101 and 197: the loop over the meta tags, the summary, and the
\* return into seo_data['detailed_analytics']
AnalyticsReturn(i) ==
    /\ invocations[i].at = "scripts"
    /\ locals(i).scripts = <<>>
    /\ LET collected == scan_metas(find_all(invocations[i].doc, "meta"), locals(i).analytics_data)
           returned == [collected EXCEPT !["analytics_summary"] = analytics_summary(collected)]
       IN  invocations' =
               [invocations EXCEPT
                   ![frame_of(i)].analytics_data = returned,
                   ![frame_of(i)].seo_data = [@ EXCEPT !.detailed_analytics = returned],
                   ![i].at = "words"]
    /\ PipelinesFrame

\* main.py 199-226: the words, the page speed indicators and the return
SeoReturn(i) ==
    /\ invocations[i].at = "words"
    /\ LET words == findall_words(Lower(get_text(invocations[i].doc)))
           counted == [locals(i).seo_data EXCEPT
                          !.word_count = Len(words),
                          !.keyword_density = top_keywords(Counter(words))]
       IN  invocations' =
               [invocations EXCEPT
                   ![frame_of(i)].seo_data = with_speed_indicators(invocations[i].doc, counted),
                   ![i].extracted = Returned(with_speed_indicators(invocations[i].doc, counted)),
                   ![i].at = "analyze"]
    /\ PipelinesFrame

\* main.py 625-799: analyze_scraped_content on the scraped data of the invocation
AnalyzeInvocation(i) ==
    /\ invocations[i].at = "analyze"
    /\ invocations' =
           [invocations EXCEPT
               ![i].analysis = analyze_scraped_content(
                                   scraped_with(invocations[i].doc, invocations[i].url,
                                                invocations[i].extracted)),
               ![i].at = "done"]
    /\ PipelinesFrame

NextPipelines ==
    \E i \in Workers :
        \/ SeoBegin(i) \/ SeoLinks(i) \/ SeoAnalytics(i) \/ AnalyticsScript(i)
        \/ AnalyticsReturn(i) \/ SeoReturn(i) \/ AnalyzeInvocation(i)

SpecPipelines == InitPipelines /\ [][NextPipelines]_vars

\* the invocations that have run to their end
Done == {i \in Workers : invocations[i].at = "done"}

\* what the pipeline returns for document d of url u when it runs alone
AloneSeo(d, u) == extract_seo_metadata(d, u)
AloneAnalysis(d, u) == analyze_scraped_content(simple_web_scraper(u, "ok", d))

\* C21: under every interleaving of the steps of two invocations on different
\* documents, each invocation returns what it returns when run alone: the
\* same outcome of extract_seo_metadata, the same detailed analytics of
\* extract_analytics_data and the same analysis.
C21_SameAsAlone ==
    \A i \in Done :
        /\ invocations[i].extracted.status = AloneSeo(invocations[i].doc, invocations[i].url).status
        /\ HasReturned(invocations[i].extracted) =>
              /\ invocations[i].extracted = AloneSeo(invocations[i].doc, invocations[i].url)
              /\ invocations[i].extracted.value.detailed_analytics
                     = extract_analytics_data(invocations[i].doc)
        /\ invocations[i].analysis.status
               = AloneAnalysis(invocations[i].doc, invocations[i].url).status
        /\ invocations[i].analysis = AloneAnalysis(invocations[i].doc, invocations[i].url)

\* one invocation has run to its end with a Google Analytics record while the
\* other, on a document without one, stands in its script loop with a record
\* of its own
C21_Witness ==
    \E i, j \in Workers :
        /\ i \in Done /\ HasReturned(invocations[i].extracted)
        /\ invocations[i].extracted.value.detailed_analytics["google_analytics"] # <<>>
        /\ invocations[j].at = "scripts"
        /\ invocations[j].analytics_data["google_analytics"] = <<>>
        /\ invocations[j].analytics_data["hotjar"] # <<>>

====
